---- MODULE Spec2Model ----
(***************************************************************************)
(* Model of the security core of alx-polly: the fixed-window rate limiter, *)
(* the CSRF token manager, the login / register actions and the poll /     *)
(* vote actions.  Every handler is split at its await points; everything   *)
(* between two awaits is one atomic step, as in a single JavaScript event  *)
(* loop.                                                                   *)
(***************************************************************************)
EXTENDS Integers, Sequences, FiniteSets, TLC

VARIABLES
    now,          \* Date.now(), in milliseconds
    advances,     \* number of clock advances so far (bounds the clock)
    rateLimits,   \* security.ts:41  key -> {count, resetTime}; keys appear on first use
    admitted,     \* history: per key, calls that returned true since the key's last window reset
    windows,      \* history: per key, the windows opened so far
    pureIn,       \* the arguments of a function applied on its own
    pureOut,      \* <<>> or <<its result>>
    csrfCookie,   \* the client's csrf_token cookie: <<>> or <<value>>
    issuedCount,  \* history: tokens generated so far by generateAndSetCsrfToken
    auth,         \* the login / register invocations in progress, per slot
    polls,        \* the polls table: id -> [user_id, question, options]
    votes,        \* the votes table: <<poll_id, user_id, option_index>> -> number of rows
    nextPollId,   \* the id the data service gives the next poll inserted
    acts,         \* the poll / vote invocations in progress, per slot
    gateReq,      \* the request the session gate (middleware) is handling
    registerPage  \* the register page in the client's browser

vars == <<now, advances, rateLimits, admitted, windows, pureIn, pureOut,
          csrfCookie, issuedCount, auth, polls, votes, nextPollId, acts, gateReq,
          registerPage>>
dataVars == <<polls, votes, nextPollId, acts>>
rateVars == <<now, advances, rateLimits, admitted, windows>>
\* what runs on its own: a function applied to its arguments, the session
\* gate, the register page
pureVars == <<pureIn, pureOut, gateReq, registerPage>>
authVars == <<csrfCookie, issuedCount, auth>>

\* ------------------------------------------------------------------ bounds
MaxAdvances == 2      \* clock advances in one behaviour
MaxOver == 1          \* calls counted beyond maxAttempts in one window
MaxTokenLen == 2      \* characters of a token handed to validateToken on its own
MaxIssued == 3        \* tokens generated in one behaviour
MaxPolls == 2         \* polls created in one behaviour
MaxPollCalls == 2     \* updatePoll calls of one user
MaxVotes == 2         \* rows in the votes table when a submitVote may still begin

\* ------------------------------------------------------- program constants
LoginMaxAttempts == 5
LoginWindowMs == 60000
RegisterMaxAttempts == 3
RegisterWindowMs == 3600000
CreatePollMaxAttempts == 5
CreatePollWindowMs == 60000
UpdatePollMaxAttempts == 10
UpdatePollWindowMs == 60000

Null == "null"        \* JavaScript null / undefined

\* ------------------------------------------------------------------ strings
\* A string is a sequence of one-character strings.

LowerOf(c) == CASE c = "A" -> "a"
                [] c = "B" -> "b"
                [] OTHER -> c

\* String.prototype.toLowerCase
toLowerCase(s) == [i \in 1..Len(s) |-> LowerOf(s[i])]

\* A value that may be null or undefined: <<>> is null, <<v>> is the value v.
None == <<>>
Some(v) == <<v>>

\* JavaScript !x for a string-or-null x.
Falsy(x) == x = None \/ x[1] = <<>>

RECURSIVE ReplaceAll(_, _, _)
\* s.replace(/ch/g, ent) for a one-character pattern ch
ReplaceAll(s, ch, ent) ==
    IF s = <<>> THEN <<>>
    ELSE (IF Head(s) = ch THEN ent ELSE <<Head(s)>>) \o ReplaceAll(Tail(s), ch, ent)

\* sanitizeInput with the ampersand escaped last (mutant of sanitizeInput).
sanitizeInput_AmpLast(input) ==
    IF Falsy(input) THEN <<>>
    ELSE ReplaceAll(
           ReplaceAll(
             ReplaceAll(
               ReplaceAll(
                 ReplaceAll(input[1], "<", <<"&", "l", "t", ";">>),
                 ">", <<"&", "g", "t", ";">>),
               "\"", <<"&", "q", "u", "o", "t", ";">>),
             "'", <<"&", "#", "0", "3", "9", ";">>),
           "&", <<"&", "a", "m", "p", ";">>)

\* sanitizeInput(input): the five replacements, in the order of the code.
sanitizeInput(input) ==
    IF Falsy(input) THEN <<>>
    ELSE ReplaceAll(
           ReplaceAll(
             ReplaceAll(
               ReplaceAll(
                 ReplaceAll(input[1], "&", <<"&", "a", "m", "p", ";">>),
                 "<", <<"&", "l", "t", ";">>),
               ">", <<"&", "g", "t", ";">>),
             "\"", <<"&", "q", "u", "o", "t", ";">>),
           "'", <<"&", "#", "0", "3", "9", ";">>)

\* \s, over the characters of the inputs
WhiteSpace == {" ", "\t", "\n", "\r", "\f"}

\* [^\s@]
NotSpaceOrAt(c) == c \notin WhiteSpace \cup {"@"}

\* /^[^\s@]+@[^\s@]+\.[^\s@]+$/.test(s)
emailRegexTest(s) ==
    \E i \in 1..Len(s) : \E j \in 1..Len(s) :
        /\ s[i] = "@" /\ s[j] = "."
        /\ 1 < i /\ i + 1 < j /\ j < Len(s)
        /\ \A k \in 1..Len(s) : k # i => NotSpaceOrAt(s[k])

\* validateEmail that skips the shape test (mutant of validateEmail).
validateEmail_NoShapeTest(email) ==
    IF Falsy(email) THEN <<>> ELSE sanitizeInput(email)

\* validateEmail(email): '' or the sanitized email.
validateEmail(email) ==
    IF Falsy(email) THEN <<>>
    ELSE IF ~emailRegexTest(email[1]) THEN <<>>
    ELSE sanitizeInput(email)

\* ---------------------------------------------------------------- CSRF token
\* Buffer.from(string): the UTF-8 bytes of each character.
Utf8Char(c) == CASE c = "0" -> <<48>>
                 [] c = "1" -> <<49>>
                 [] c = "e_acute" -> <<195, 169>>
                 [] c = "n_tilde" -> <<195, 177>>

RECURSIVE BufferFrom(_)
BufferFrom(s) == IF s = <<>> THEN <<>> ELSE Utf8Char(Head(s)) \o BufferFrom(Tail(s))

\* crypto.timingSafeEqual(a, b): throws when the byte lengths differ.
timingSafeEqual(a, b) ==
    IF Len(a) # Len(b) THEN "throw"
    ELSE IF \A i \in 1..Len(a) : a[i] = b[i] THEN "true" ELSE "false"

\* validateToken answering true when the comparison throws (mutant of
\* validateToken).
validateToken_CatchTrue(storedToken, token) ==
    IF Falsy(storedToken) \/ Falsy(token) THEN "false"
    ELSE LET r == timingSafeEqual(BufferFrom(token[1]), BufferFrom(storedToken[1]))
         IN  IF r = "throw" THEN "true" ELSE r

\* validateToken without the try / catch (mutant of validateToken).
validateToken_NoCatch(storedToken, token) ==
    IF Falsy(storedToken) \/ Falsy(token) THEN "false"
    ELSE timingSafeEqual(BufferFrom(token[1]), BufferFrom(storedToken[1]))

\* validateToken(token) / validateCsrfToken(token), given what getCsrfToken()
\* returned (the stored token or undefined): "true" or "false"; "throw" would
\* be an exception leaving the function.
validateToken(storedToken, token) ==
    IF Falsy(storedToken) \/ Falsy(token) THEN "false"
    ELSE LET r == timingSafeEqual(BufferFrom(token[1]), BufferFrom(storedToken[1]))
         IN  IF r = "throw" THEN "false" ELSE r

RECURSIVE Digits(_, _)
\* the k low binary digits of n, as characters
Digits(n, k) == IF k = 0 THEN <<>>
                ELSE Digits(n \div 2, k - 1) \o <<IF n % 2 = 0 THEN "0" ELSE "1">>

\* crypto.randomBytes(32).toString('hex'): the n-th token generated. Tokens
\* are of one length and no token is generated twice.
randomToken(n) == Digits(n, MaxIssued)

\* cookies().get('csrf_token')?.value
getCsrfToken(cookie) == cookie

\* A token set only when none is stored (mutant of generateAndSetCsrfToken).
generateAndSetCsrfToken_KeepExisting(cookie, n) ==
    IF cookie = None THEN Some(randomToken(n)) ELSE cookie

\* A token generated and returned but not stored (mutant of
\* generateAndSetCsrfToken).
generateAndSetCsrfToken_NoCookie(cookie, n) == cookie

\* generateAndSetCsrfToken(): the cookie after the n-th token is generated
\* and set. The cookie's attributes (httpOnly, secure, sameSite, path, maxAge)
\* are the browser's to enforce; ClearCookie is the cookie reaching its maxAge.
generateAndSetCsrfToken(cookie, n) == Some(randomToken(n))

\* ------------------------------------------------------------- rate limiter
\* The login key built from the email as submitted (mutant of LoginKey).
LoginKey_CaseSensitive(email) == <<"login_", email>>

\* The key built at each call site, kept as <<prefix, suffix>>.
LoginKey(email) == <<"login_", toLowerCase(email)>>
RegisterKey == <<"register_global", <<>>>>
CreatePollKey(uid) == <<"create_poll_", <<uid>>>>
UpdatePollKey(uid) == <<"update_poll_", <<uid>>>>

\* The rate limiter with the counter left as it was (mutant of checkRateLimit).
checkRateLimit_NoIncrement(rl, key, maxAttempts, windowMs, t) ==
    LET fresh == key \notin DOMAIN rl \/ rl[key].resetTime < t
        base == IF fresh THEN [count |-> 0, resetTime |-> t + windowMs] ELSE rl[key]
    IN  [rl |-> [k \in DOMAIN rl \cup {key} |-> IF k = key THEN base ELSE rl[k]],
         ok |-> base.count + 1 <= maxAttempts]

\* The rate limiter that keeps a key's first window for ever (mutant of
\* checkRateLimit).
checkRateLimit_NeverReset(rl, key, maxAttempts, windowMs, t) ==
    LET fresh == key \notin DOMAIN rl
        base == IF fresh THEN [count |-> 0, resetTime |-> t + windowMs] ELSE rl[key]
        entry == [base EXCEPT !.count = @ + 1]
    IN  [rl |-> [k \in DOMAIN rl \cup {key} |-> IF k = key THEN entry ELSE rl[k]],
         ok |-> entry.count <= maxAttempts]

\* The rate limiter whose window end moves with every call (mutant of
\* checkRateLimit).
checkRateLimit_SlidingWindow(rl, key, maxAttempts, windowMs, t) ==
    LET fresh == key \notin DOMAIN rl \/ rl[key].resetTime < t
        base == IF fresh THEN [count |-> 0, resetTime |-> t + windowMs] ELSE rl[key]
        entry == [count |-> base.count + 1, resetTime |-> t + windowMs]
    IN  [rl |-> [k \in DOMAIN rl \cup {key} |-> IF k = key THEN entry ELSE rl[k]],
         ok |-> entry.count <= maxAttempts]

\* The rate limiter that drops the expired entry of every key (mutant of
\* checkRateLimit).
checkRateLimit_SweepExpired(rl, key, maxAttempts, windowMs, t) ==
    LET live == {k \in DOMAIN rl : ~(rl[k].resetTime < t)}
        base == IF key \notin live THEN [count |-> 0, resetTime |-> t + windowMs] ELSE rl[key]
        entry == [base EXCEPT !.count = @ + 1]
    IN  [rl |-> [k \in live \cup {key} |-> IF k = key THEN entry ELSE rl[k]],
         ok |-> entry.count <= maxAttempts]

\* checkRateLimit(key, maxAttempts, windowMs) at time t on the map rl:
\* the map afterwards and the value returned.
checkRateLimit(rl, key, maxAttempts, windowMs, t) ==
    LET fresh == key \notin DOMAIN rl \/ rl[key].resetTime < t
        base == IF fresh THEN [count |-> 0, resetTime |-> t + windowMs] ELSE rl[key]
        entry == [base EXCEPT !.count = @ + 1]
    IN  [rl |-> [k \in DOMAIN rl \cup {key} |-> IF k = key THEN entry ELSE rl[k]],
         ok |-> entry.count <= maxAttempts]

\* History kept beside a checkRateLimit call: a window reset of the key is a
\* call that creates the entry or moves its window end.
Opened(rl, rl2, key) == key \notin DOMAIN rl \/ rl2[key].resetTime # rl[key].resetTime

AdmittedAfter(adm, rl, r, key) ==
    LET start == IF Opened(rl, r.rl, key) THEN 0 ELSE adm[key]
    IN  [k \in DOMAIN adm \cup {key} |->
            IF k = key THEN start + (IF r.ok THEN 1 ELSE 0) ELSE adm[k]]

WindowsAfter(w, rl, rl2, key) ==
    [k \in DOMAIN w \cup {key} |->
        IF k = key THEN (IF key \in DOMAIN w THEN w[key] ELSE 0)
                        + (IF Opened(rl, rl2, key) THEN 1 ELSE 0)
        ELSE w[k]]

\* The guard that caps the counter of a key.
CountBelowCap(rl, key, maxAttempts, t) ==
    key \in DOMAIN rl /\ ~(rl[key].resetTime < t) => rl[key].count < maxAttempts + MaxOver

\* ------------------------------------------------------------ sample inputs
EmailLower == <<"a", "@", "b", ".", "c">>
EmailUpper == <<"A", "@", "B", ".", "c">>
EmailOther == <<"b", "@", "b", ".", "c">>
Users == {"u1", "u2"}

\* The calls of checkRateLimit the program makes: <<key, maxAttempts, windowMs>>.
CallSites ==
    {<<LoginKey(e), LoginMaxAttempts, LoginWindowMs>> : e \in {EmailLower, EmailUpper}}
    \cup {<<RegisterKey, RegisterMaxAttempts, RegisterWindowMs>>}
    \cup {<<UpdatePollKey("u1"), UpdatePollMaxAttempts, UpdatePollWindowMs>>}

MaxAttemptsOf(key) == CASE key[1] = "login_" -> LoginMaxAttempts
                        [] key[1] = "register_global" -> RegisterMaxAttempts
                        [] key[1] = "create_poll_" -> CreatePollMaxAttempts
                        [] key[1] = "update_poll_" -> UpdatePollMaxAttempts

ClockSteps == {1, LoginWindowMs, RegisterWindowMs}

\* Two poll or vote invocations may be in progress at once.
ActSlots == {"p1", "p2"}

\* op, pc: the action and where it stands; user, userError: what the action
\* read of getUser()'s answer (submitVote reads the user alone); poll,
\* option, form: the arguments; result: how the action ended.
IdleAct == [op |-> "idle", pc |-> "idle", user |-> None, userError |-> FALSE,
            poll |-> 0, option |-> 0,
            form |-> "none", result |-> [kind |-> "none", error |-> Null]]

\* An empty database.
InitData ==
    /\ polls = <<>>
    /\ votes = <<>>
    /\ nextPollId = 1
    /\ acts = [s \in ActSlots |-> IdleAct]

\* ------------------------------------------------------------------ actions
InitRate ==
    /\ now = 0
    /\ advances = 0
    /\ rateLimits = <<>>
    /\ admitted = <<>>
    /\ windows = <<>>

\* A URL: its pathname and its query, a sequence of <<name, value>> pairs.
NoUrl == [pathname |-> <<>>, search |-> <<>>]

\* pc: where the middleware stands; pathname, search: request.nextUrl;
\* env: whether both environment variables are set; production: whether
\* NODE_ENV is "production"; cookies: the cookies the request arrived with;
\* forwarded: request.cookies as the middleware leaves them; session: what
\* getSession() answers; called: whether getSession() was called; asked: the
\* cookies the identity service passed to setAll; supabaseResponse: the
\* variable of that name; response: what the middleware returned, with the
\* cookies set on it.
IdleGate == [pc |-> "idle", pathname |-> <<>>, search |-> <<>>, env |-> TRUE,
             production |-> FALSE, cookies |-> <<>>, forwarded |-> <<>>,
             session |-> None, called |-> FALSE, asked |-> <<>>,
             supabaseResponse |-> [kind |-> "next", location |-> NoUrl, cookies |-> <<>>],
             response |-> [kind |-> "none", location |-> NoUrl, cookies |-> <<>>]]

\* pc: where the page stands; meta: the content of the csrf-token meta tag;
\* csrfToken: the page's state of that name ('' at first); fetch: the state
\* of its fetch of /api/csrf; session: the session the fetch was made with;
\* body: the token of the fetched JSON.
IdlePage == [pc |-> "closed", meta |-> <<>>, csrfToken |-> <<>>, fetch |-> "none",
             session |-> None, body |-> None]

InitPureIdle ==
    /\ pureIn = <<>>
    /\ pureOut = <<>>
    /\ gateReq = IdleGate
    /\ registerPage = IdlePage

\* One login or register invocation at a time; GET /api/csrf and the cookie
\* being dropped interleave with it at each of its awaits.
Slots == {"h1"}

NoResult == [kind |-> "none", error |-> Null]
Returned(e) == [kind |-> "return", error |-> e]
Thrown(e) == [kind |-> "throw", error |-> e]

\* op, pc: the action and where it stands; csrf: the csrf_token field;
\* stored, valid: what validateToken read and answered; email, name: the
\* submitted fields; result: how the action ended; trace: the gates it ran;
\* rotated: the number of the token it generated, or -1.
IdleAuth == [op |-> "idle", pc |-> "idle", csrf |-> None, stored |-> None,
             valid |-> "none", email |-> None, name |-> None, result |-> NoResult,
             trace |-> <<>>, rotated |-> -1]

InitAuth ==
    /\ csrfCookie = None
    /\ issuedCount = 0
    /\ auth = [h \in Slots |-> IdleAuth]

\* Time passes.
Advance(d) ==
    /\ advances < MaxAdvances
    /\ now' = now + d
    /\ advances' = advances + 1
    /\ UNCHANGED <<rateLimits, admitted, windows, pureVars, authVars, dataVars>>

\* One call of checkRateLimit from a call site.
CallCheckRateLimit(key, maxAttempts, windowMs) ==
    /\ CountBelowCap(rateLimits, key, maxAttempts, now)
    /\ LET r == checkRateLimit(rateLimits, key, maxAttempts, windowMs, now)
       IN  /\ rateLimits' = r.rl
           /\ admitted' = AdmittedAfter(admitted, rateLimits, r, key)
           /\ windows' = WindowsAfter(windows, rateLimits, r.rl, key)
    /\ UNCHANGED <<now, advances, pureVars, authVars, dataVars>>

NextRateLimit ==
    \/ \E d \in ClockSteps : Advance(d)
    \/ \E c \in CallSites : CallCheckRateLimit(c[1], c[2], c[3])

InitRateLimit == InitRate /\ InitPureIdle /\ InitAuth /\ InitData

SpecRateLimit == InitRateLimit /\ [][NextRateLimit]_vars

\* C1: between one window reset of a key and the next, at most maxAttempts
\* calls of checkRateLimit for that key return true.
C1_AtMostMaxAdmitted ==
    \A k \in DOMAIN admitted : admitted[k] <= MaxAttemptsOf(k)

\* A login key, in a window opened after a full window length had passed,
\* that has admitted maxAttempts calls and has rejected one.
C1_Witness ==
    LET k == LoginKey(EmailUpper)
    IN  /\ k \in DOMAIN rateLimits
        /\ rateLimits[k].count > LoginMaxAttempts
        /\ admitted[k] = LoginMaxAttempts
        /\ rateLimits[k].resetTime > 2 * LoginWindowMs

\* ------------------------------------------------------- login and register
MsgCsrf == "Invalid or expired form submission. Please try again."
MsgLoginRate == "Too many login attempts. Please try again later."
MsgRegisterRate == "Registration is temporarily unavailable. Please try again later."
MsgEmail == "Invalid email format"
MsgName == "Name is required and must be at least 2 characters"
MsgLoginFailed == "Invalid email or password"
MsgRegisterFailed == "Registration failed. Please try again with a different email."

EmailBad == <<"a", "b">>
EmailInputs == {None, Some(EmailLower), Some(EmailUpper), Some(EmailBad)}
NameInputs == {None, Some(<<"a">>), Some(<<"<">>)}

\* The csrf_token field of a submission: absent (a plain object, or a form
\* without the field), or a string.
CsrfFields == {None}
              \cup {Some(randomToken(n)) : n \in 0..(MaxIssued - 1)}
              \cup {Some(<<>>), Some(<<"0">>)}

\* What the identity service answers: no error, or an error with its text.
IdentityErrors == {None, Some("Email not confirmed"), Some("User already registered")}

\* The identity service's own text handed back to the caller (mutant of
\* authFailureMessage).
authFailureMessage_Verbatim(op, err) == err[1]

\* lines 45-48 and 104-107: what login / register return when the identity
\* service answered with the error err.
authFailureMessage(op, err) ==
    IF op = "login" THEN MsgLoginFailed ELSE MsgRegisterFailed

Done(h, res, gate) == [h EXCEPT !.pc = "done", !.result = res, !.trace = @ \o <<gate>>]

\* login that counts the attempt only after the email has passed (mutant of
\* loginGates).
loginGates_ValidateFirst(h, rl, email, t) ==
    IF email = None
    THEN [h |-> Done(h, Thrown("TypeError"), "throw"), rl |-> rl, call |-> None]
    ELSE LET key == LoginKey(email[1])
             r == checkRateLimit(rl, key, LoginMaxAttempts, LoginWindowMs, t)
             call == Some([key |-> key, ok |-> r.ok])
             h1 == [h EXCEPT !.email = email]
         IN  IF validateEmail(email) = <<>>
             THEN [h |-> Done(h1, Returned(MsgEmail), "fields:fail"), rl |-> rl, call |-> None]
             ELSE IF ~r.ok
             THEN [h |-> Done([h1 EXCEPT !.trace = @ \o <<"fields">>],
                              Returned(MsgLoginRate), "rate:fail"),
                   rl |-> r.rl, call |-> call]
             ELSE [h |-> [h1 EXCEPT !.pc = "identity", !.trace = @ \o <<"fields", "rate">>],
                   rl |-> r.rl, call |-> call]

\* login, lines 26-38: from the rate-limit key to the await before the
\* identity service is called, for the submitted email, at time t.
loginGates(h, rl, email, t) ==
    IF email = None
    THEN \* data.email.toLowerCase() on null
         [h |-> Done(h, Thrown("TypeError"), "throw"), rl |-> rl, call |-> None]
    ELSE LET key == LoginKey(email[1])
             r == checkRateLimit(rl, key, LoginMaxAttempts, LoginWindowMs, t)
             call == Some([key |-> key, ok |-> r.ok])
             h1 == [h EXCEPT !.email = email]
         IN  IF ~r.ok
             THEN [h |-> Done(h1, Returned(MsgLoginRate), "rate:fail"),
                   rl |-> r.rl, call |-> call]
             ELSE IF validateEmail(email) = <<>>
             THEN [h |-> Done([h1 EXCEPT !.trace = @ \o <<"rate">>],
                              Returned(MsgEmail), "fields:fail"),
                   rl |-> r.rl, call |-> call]
             ELSE [h |-> [h1 EXCEPT !.pc = "identity", !.trace = @ \o <<"rate", "fields">>],
                   rl |-> r.rl, call |-> call]

\* register with a budget for each submitted email (mutant of registerGates).
registerGates_PerEmailKey(h, rl, email, name, t) ==
    LET key == <<"register_", IF email = None THEN <<>> ELSE email[1]>>
        r == checkRateLimit(rl, key, RegisterMaxAttempts, RegisterWindowMs, t)
        call == Some([key |-> key, ok |-> r.ok])
        h1 == [h EXCEPT !.email = email, !.name = name]
        cleanName == sanitizeInput(name)
    IN  IF ~r.ok
        THEN [h |-> Done(h1, Returned(MsgRegisterRate), "rate:fail"),
              rl |-> r.rl, call |-> call]
        ELSE IF validateEmail(email) = <<>>
        THEN [h |-> Done([h1 EXCEPT !.trace = @ \o <<"rate">>],
                         Returned(MsgEmail), "fields:fail"),
              rl |-> r.rl, call |-> call]
        ELSE IF cleanName = <<>> \/ Len(cleanName) < 2
        THEN [h |-> Done([h1 EXCEPT !.trace = @ \o <<"rate">>],
                         Returned(MsgName), "fields:fail"),
              rl |-> r.rl, call |-> call]
        ELSE [h |-> [h1 EXCEPT !.pc = "identity", !.trace = @ \o <<"rate", "fields">>],
              rl |-> r.rl, call |-> call]

\* register, lines 75-92: from the rate limit to the await before the
\* identity service is called.
registerGates(h, rl, email, name, t) ==
    LET key == RegisterKey
        r == checkRateLimit(rl, key, RegisterMaxAttempts, RegisterWindowMs, t)
        call == Some([key |-> key, ok |-> r.ok])
        h1 == [h EXCEPT !.email = email, !.name = name]
        cleanName == sanitizeInput(name)
    IN  IF ~r.ok
        THEN [h |-> Done(h1, Returned(MsgRegisterRate), "rate:fail"),
              rl |-> r.rl, call |-> call]
        ELSE IF validateEmail(email) = <<>>
        THEN [h |-> Done([h1 EXCEPT !.trace = @ \o <<"rate">>],
                         Returned(MsgEmail), "fields:fail"),
              rl |-> r.rl, call |-> call]
        ELSE IF cleanName = <<>> \/ Len(cleanName) < 2
        THEN [h |-> Done([h1 EXCEPT !.trace = @ \o <<"rate">>],
                         Returned(MsgName), "fields:fail"),
              rl |-> r.rl, call |-> call]
        ELSE [h |-> [h1 EXCEPT !.pc = "identity", !.trace = @ \o <<"rate", "fields">>],
              rl |-> r.rl, call |-> call]

\* The shared end of a step that ran the gates.
ApplyGates(s, g) ==
    /\ auth' = [auth EXCEPT ![s] = g.h]
    /\ rateLimits' = g.rl
    /\ IF g.call = None
       THEN UNCHANGED <<admitted, windows>>
       ELSE /\ admitted' = AdmittedAfter(admitted, rateLimits,
                                         [rl |-> g.rl, ok |-> g.call[1].ok], g.call[1].key)
            /\ windows' = WindowsAfter(windows, rateLimits, g.rl, g.call[1].key)

\* GET /api/csrf: a token is generated, set as the cookie and returned.
CsrfGet ==
    /\ issuedCount < MaxIssued
    /\ csrfCookie' = generateAndSetCsrfToken(csrfCookie, issuedCount)
    /\ issuedCount' = issuedCount + 1
    /\ UNCHANGED <<auth, rateVars, pureVars, dataVars>>

\* login(formData) is called. With a csrf_token field the stored token is
\* read and compared and the action awaits; without one it runs on to the
\* gates.
BeginLogin(s, csrf) ==
    /\ auth[s].pc = "idle"
    /\ IF csrf # None
       THEN /\ auth' = [auth EXCEPT ![s] =
                   [IdleAuth EXCEPT !.op = "login", !.pc = "csrf", !.csrf = csrf,
                        !.stored = getCsrfToken(csrfCookie),
                        !.valid = validateToken(getCsrfToken(csrfCookie), csrf)]]
            /\ UNCHANGED <<rateLimits, admitted, windows>>
       ELSE \E email \in EmailInputs :
              /\ email # None => CountBelowCap(rateLimits, LoginKey(email[1]), LoginMaxAttempts, now)
              /\ ApplyGates(s, loginGates([IdleAuth EXCEPT !.op = "login"], rateLimits, email, now))
    /\ UNCHANGED <<now, advances, csrfCookie, issuedCount, pureVars, dataVars>>

\* login resumes after the token comparison.
LoginAfterCsrf(s) ==
    /\ auth[s].op = "login" /\ auth[s].pc = "csrf"
    /\ IF auth[s].valid # "true"
       THEN /\ auth' = [auth EXCEPT ![s] = Done(@, Returned(MsgCsrf), "csrf:fail")]
            /\ UNCHANGED <<rateLimits, admitted, windows>>
       ELSE \E email \in EmailInputs :
              /\ email # None => CountBelowCap(rateLimits, LoginKey(email[1]), LoginMaxAttempts, now)
              /\ ApplyGates(s, loginGates([auth[s] EXCEPT !.trace = @ \o <<"csrf">>],
                                          rateLimits, email, now))
    /\ UNCHANGED <<now, advances, csrfCookie, issuedCount, pureVars, dataVars>>

\* register(formData) is called.
BeginRegister(s, csrf) ==
    /\ auth[s].pc = "idle"
    /\ IF csrf # None
       THEN /\ auth' = [auth EXCEPT ![s] =
                   [IdleAuth EXCEPT !.op = "register", !.pc = "csrf", !.csrf = csrf,
                        !.stored = getCsrfToken(csrfCookie),
                        !.valid = validateToken(getCsrfToken(csrfCookie), csrf)]]
            /\ UNCHANGED <<rateLimits, admitted, windows>>
       ELSE \E email \in EmailInputs : \E name \in NameInputs :
              /\ CountBelowCap(rateLimits, RegisterKey, RegisterMaxAttempts, now)
              /\ ApplyGates(s, registerGates([IdleAuth EXCEPT !.op = "register"],
                                             rateLimits, email, name, now))
    /\ UNCHANGED <<now, advances, csrfCookie, issuedCount, pureVars, dataVars>>

\* register resumes after the token comparison.
RegisterAfterCsrf(s) ==
    /\ auth[s].op = "register" /\ auth[s].pc = "csrf"
    /\ IF auth[s].valid # "true"
       THEN /\ auth' = [auth EXCEPT ![s] = Done(@, Returned(MsgCsrf), "csrf:fail")]
            /\ UNCHANGED <<rateLimits, admitted, windows>>
       ELSE \E email \in EmailInputs : \E name \in NameInputs :
              /\ CountBelowCap(rateLimits, RegisterKey, RegisterMaxAttempts, now)
              /\ ApplyGates(s, registerGates([auth[s] EXCEPT !.trace = @ \o <<"csrf">>],
                                             rateLimits, email, name, now))
    /\ UNCHANGED <<now, advances, csrfCookie, issuedCount, pureVars, dataVars>>

\* signInWithPassword / signUp answers and the action resumes: a generic
\* error on failure; on success a new token is generated and set, and the
\* action awaits once more.
IdentityAnswers(s, err) ==
    /\ auth[s].pc = "identity"
    /\ IF err # None
       THEN /\ auth' = [auth EXCEPT ![s] =
                   Done(@, Returned(authFailureMessage(@.op, err)), "identity:fail")]
            /\ UNCHANGED <<csrfCookie, issuedCount>>
       ELSE /\ issuedCount < MaxIssued
            /\ csrfCookie' = generateAndSetCsrfToken(csrfCookie, issuedCount)
            /\ issuedCount' = issuedCount + 1
            /\ auth' = [auth EXCEPT ![s].pc = "rotated", ![s].trace = @ \o <<"identity">>,
                                    ![s].rotated = issuedCount]
    /\ UNCHANGED <<rateVars, pureVars, dataVars>>

\* return { error: null }
ReturnSuccess(s) ==
    /\ auth[s].pc = "rotated"
    /\ auth' = [auth EXCEPT ![s] = Done(@, Returned(Null), "return")]
    /\ UNCHANGED <<csrfCookie, issuedCount, rateVars, pureVars, dataVars>>

\* The caller has its answer; the slot is free for the next invocation.
Complete(s) ==
    /\ auth[s].pc = "done"
    /\ auth' = [auth EXCEPT ![s] = IdleAuth]
    /\ UNCHANGED <<csrfCookie, issuedCount, rateVars, pureVars, dataVars>>

\* The cookie reaches its maxAge of one hour, or the client drops it.
ClearCookie ==
    /\ csrfCookie # None
    /\ csrfCookie' = None
    /\ UNCHANGED <<issuedCount, auth, rateVars, pureVars, dataVars>>

InitAuthSpec == InitRate /\ InitPureIdle /\ InitAuth /\ InitData

NextAuth ==
    \/ CsrfGet
    \/ \E s \in Slots : \E csrf \in CsrfFields : BeginLogin(s, csrf)
    \/ \E s \in Slots : LoginAfterCsrf(s)
    \/ \E s \in Slots : \E csrf \in CsrfFields : BeginRegister(s, csrf)
    \/ \E s \in Slots : RegisterAfterCsrf(s)
    \/ \E s \in Slots : \E err \in IdentityErrors : IdentityAnswers(s, err)
    \/ \E s \in Slots : ReturnSuccess(s)
    \/ \E s \in Slots : Complete(s)
    \/ ClearCookie

SpecAuth == InitAuthSpec /\ [][NextAuth]_vars

\* ------------------------------------------------ validateToken on its own
TokenChars == {"0", "1", "e_acute", "n_tilde"}

RECURSIVE StringsUpTo(_, _)
\* the strings of at most n characters over the alphabet
StringsUpTo(chars, n) ==
    IF n = 0 THEN {<<>>}
    ELSE LET shorter == StringsUpTo(chars, n - 1)
         IN  shorter \cup {<<c>> \o t : c \in chars, t \in {u \in shorter : Len(u) = n - 1}}

TokenInputs == {None} \cup {Some(t) : t \in StringsUpTo(TokenChars, MaxTokenLen)}

InitValidateToken ==
    /\ InitRate
    /\ InitAuth
    /\ InitData
    /\ pureIn \in TokenInputs \X TokenInputs     \* <<stored cookie, submitted>>
    /\ pureOut = <<>>
    /\ gateReq = IdleGate
    /\ registerPage = IdlePage

ApplyValidateToken ==
    /\ pureOut = <<>>
    /\ pureOut' = Some(validateToken(pureIn[1], pureIn[2]))
    /\ UNCHANGED <<pureIn, gateReq, registerPage, rateVars, authVars, dataVars>>

SpecValidateToken == InitValidateToken /\ [][ApplyValidateToken]_vars

\* C5: validateToken returns true exactly when a token is stored, the
\* submitted token is non-empty and the two are equal byte for byte; in every
\* other case it returns false, and it never throws.
C5_ValidateTokenIff ==
    pureOut # <<>> =>
        LET stored == pureIn[1]
            submitted == pureIn[2]
            same == /\ stored # None
                    /\ submitted # None
                    /\ submitted[1] # <<>>
                    /\ BufferFrom(submitted[1]) = BufferFrom(stored[1])
        IN  pureOut[1] = (IF same THEN "true" ELSE "false")

\* A stored token and a submitted one of another byte length, which the
\* comparison primitive refuses, answered with false.
C5_Witness ==
    /\ pureOut = Some("false")
    /\ pureIn[1] # None /\ pureIn[2] # None
    /\ pureIn[1][1] # <<>> /\ pureIn[2][1] # <<>>
    /\ Len(BufferFrom(pureIn[1][1])) # Len(BufferFrom(pureIn[2][1]))

\* The tokens generated so far, and the latest of them.
IssuedTokens == {randomToken(n) : n \in 0..(issuedCount - 1)}
LatestToken == randomToken(issuedCount - 1)

\* Every string a client may submit as a token.
AnyToken == {Some(t) : t \in StringsUpTo({"0", "1"}, MaxIssued)}

\* C6: a submitted token is accepted only if it is the token stored by the
\* most recent issuance; every token issued earlier is rejected, so at most
\* one token is valid at any time. The same holds of what an invocation's
\* own validation read and answered.
C6_OnlyLatestTokenAccepted ==
    /\ \A c \in AnyToken :
          validateToken(getCsrfToken(csrfCookie), c) = "true"
              => issuedCount > 0 /\ c[1] = LatestToken
    /\ \A t \in IssuedTokens \ {LatestToken} :
          validateToken(getCsrfToken(csrfCookie), Some(t)) = "false"
    /\ \A s \in Slots :
          auth[s].valid = "true" => auth[s].stored = auth[s].csrf /\ auth[s].csrf[1] \in IssuedTokens

\* The first token issued, submitted after a second issuance overwrote it,
\* has been rejected.
C6_Witness ==
    \E s \in Slots :
        /\ auth[s].pc = "done" /\ auth[s].result = Returned(MsgCsrf)
        /\ auth[s].csrf = Some(randomToken(0))
        /\ auth[s].stored = Some(randomToken(1))
        /\ csrfCookie = Some(randomToken(1))

\* C7: a login or register on its way to {error: null} stores a token not
\* generated before; once it has returned {error: null} the stored token is
\* that one or a later one (or the cookie is gone), and the token submitted
\* with the call no longer validates.
C7_SuccessRotatesToken ==
    /\ [][\A s \in Slots :
            auth[s].pc = "identity" /\ auth'[s].pc = "rotated" =>
                /\ csrfCookie' # None
                /\ csrfCookie'[1] \notin IssuedTokens
                /\ csrfCookie' = Some(randomToken(auth'[s].rotated))
         ]_vars
    /\ [](\A s \in Slots :
            auth[s].pc = "done" /\ auth[s].result = Returned(Null) =>
                /\ auth[s].rotated >= 0
                /\ csrfCookie \in {None} \cup {Some(randomToken(n)) :
                                                  n \in auth[s].rotated..(issuedCount - 1)}
                /\ auth[s].csrf # None =>
                      /\ auth[s].csrf[1] # randomToken(auth[s].rotated)
                      /\ validateToken(getCsrfToken(csrfCookie), auth[s].csrf) = "false")

\* A register submission whose token validated has succeeded, and the cookie
\* holds the token generated by that call.
C7_Witness ==
    \E s \in Slots :
        /\ auth[s].op = "register"
        /\ auth[s].pc = "done" /\ auth[s].result = Returned(Null)
        /\ auth[s].csrf # None /\ auth[s].valid = "true"
        /\ csrfCookie = Some(randomToken(auth[s].rotated))

\* "The submitted token does not validate against the stored one", stated
\* without the comparison routine.
Mismatch(stored, submitted) ==
    ~(stored # None /\ submitted # None /\ submitted[1] # <<>> /\ submitted[1] = stored[1])

\* C8: a login or register submission carrying a csrf_token that does not
\* validate awaits the comparison and is then rejected with the CSRF message;
\* neither step touches the rate-limit counters, calls the identity service
\* or changes the stored token.
C8_BadCsrfRejectedFirst ==
    [][\A s \in Slots :
          /\ (auth[s].pc = "idle" /\ auth'[s].pc # "idle" /\ auth'[s].csrf # None
                /\ Mismatch(csrfCookie, auth'[s].csrf))
             => /\ auth'[s].pc = "csrf"
                /\ rateLimits' = rateLimits /\ csrfCookie' = csrfCookie
                /\ issuedCount' = issuedCount
          /\ (auth[s].pc = "csrf" /\ auth'[s].pc # "csrf"
                /\ Mismatch(auth[s].stored, auth[s].csrf))
             => /\ auth'[s].pc = "done"
                /\ auth'[s].result = Returned(MsgCsrf)
                /\ auth'[s].trace = <<"csrf:fail">>
                /\ rateLimits' = rateLimits /\ csrfCookie' = csrfCookie
                /\ issuedCount' = issuedCount
      ]_vars

\* A login whose token has the wrong length was rejected with the CSRF
\* message while a token was stored and no counter exists.
C8_Witness ==
    \E s \in Slots :
        /\ auth[s].op = "login"
        /\ auth[s].pc = "done" /\ auth[s].result = Returned(MsgCsrf)
        /\ auth[s].csrf = Some(<<"0">>)
        /\ auth[s].stored # None
        /\ rateLimits = <<>>

\* The gates in the order of the claim, with the outcome each may leave.
GateMessage(op, gate) ==
    CASE gate = "csrf:fail" -> {MsgCsrf}
      [] gate = "rate:fail" -> {IF op = "login" THEN MsgLoginRate ELSE MsgRegisterRate}
      [] gate = "fields:fail" -> IF op = "login" THEN {MsgEmail} ELSE {MsgEmail, MsgName}
      [] gate = "identity:fail" -> {IF op = "login" THEN MsgLoginFailed ELSE MsgRegisterFailed}

PassedBefore(h, gate) ==
    LET csrfPart == IF h.csrf # None THEN <<"csrf">> ELSE <<>>
    IN  CASE gate = "csrf" -> <<>>
          [] gate = "rate" -> csrfPart
          [] gate = "fields" -> csrfPart \o <<"rate">>
          [] gate = "identity" -> csrfPart \o <<"rate", "fields">>

GateOf(failed) == CASE failed = "csrf:fail" -> "csrf"
                    [] failed = "rate:fail" -> "rate"
                    [] failed = "fields:fail" -> "fields"
                    [] failed = "identity:fail" -> "identity"

RECURSIVE EscapedLen(_)
\* the length of a string once each of & < > " ' is written as its entity
EscapedLen(str) ==
    IF str = <<>> THEN 0
    ELSE (CASE Head(str) = "&" -> 5
            [] Head(str) \in {"<", ">"} -> 4
            [] Head(str) \in {"\"", "'"} -> 6
            [] OTHER -> 1) + EscapedLen(Tail(str))

EmailShape(e) ==
    /\ e # None
    /\ Cardinality({i \in 1..Len(e[1]) : e[1][i] = "@"}) = 1
    /\ \A i \in 1..Len(e[1]) : e[1][i] # " "
    /\ \E i \in 2..Len(e[1]) : \E j \in (i + 2)..(Len(e[1]) - 1) :
          e[1][i] = "@" /\ e[1][j] = "."

\* C9: in login and register the gates run in the order CSRF, rate limit,
\* fields, identity service. The identity service is reached only after the
\* three gates before it have passed (a submitted token that matched, a
\* well-formed email and, for register, a name of two characters or more),
\* and a gate that fails ends the action with its own user-facing message.
C9_GatesInOrder ==
    \A s \in Slots :
        LET h == auth[s]
            last == h.trace[Len(h.trace)]
        IN  /\ h.pc \in {"identity", "rotated"} =>
                /\ h.trace \in {PassedBefore(h, "identity"),
                                PassedBefore(h, "identity") \o <<"identity">>}
                /\ h.csrf # None => ~Mismatch(h.stored, h.csrf)
                /\ EmailShape(h.email)
                /\ h.op = "register" => h.name # None /\ EscapedLen(h.name[1]) >= 2
            /\ (h.pc = "done" /\ last \in {"csrf:fail", "rate:fail", "fields:fail", "identity:fail"}) =>
                /\ h.result.kind = "return"
                /\ h.result.error \in GateMessage(h.op, last)
                /\ SubSeq(h.trace, 1, Len(h.trace) - 1) = PassedBefore(h, GateOf(last))
                /\ h.rotated = -1

\* A register submission without a csrf_token field, a well-formed email and
\* a one-character name that escapes to four characters has passed the three
\* gates and the identity service has answered with a failure.
C9_Witness ==
    \E s \in Slots :
        /\ auth[s].op = "register" /\ auth[s].pc = "done"
        /\ auth[s].trace = <<"rate", "fields", "identity:fail">>
        /\ auth[s].name = Some(<<"<">>)
        /\ auth[s].result = Returned(MsgRegisterFailed)

\* C10: every invocation of login and register ends by returning a result
\* value {error: string|null}; none ends by throwing.
C10_NeverThrows ==
    \A s \in Slots : auth[s].pc = "done" => auth[s].result.kind = "return"

\* C11: when the identity service answers login or register with an error,
\* the action returns its fixed message, "Invalid email or password" for login
\* and the registration-failure message for register, whatever the text of
\* the service's error.
C11_GenericIdentityFailure ==
    [][\A s \in Slots :
          (auth[s].pc = "identity" /\ auth'[s].pc = "done")
          => auth'[s].result =
                Returned(IF auth[s].op = "login"
                         THEN "Invalid email or password"
                         ELSE "Registration failed. Please try again with a different email.")
      ]_vars

\* A register whose signUp was answered with an error has returned the
\* registration-failure message.
C11_Witness ==
    \E s \in Slots :
        /\ auth[s].op = "register" /\ auth[s].pc = "done"
        /\ auth[s].trace # <<>> /\ auth[s].trace[Len(auth[s].trace)] = "identity:fail"
        /\ auth[s].result = Returned(MsgRegisterFailed)

\* ------------------------------------------------------------------ voting
MsgVoteLogin == "You must be logged in to vote."
MsgVoted == "You have already voted on this poll"
MsgDataError == "data service error"    \* error.message of a failed data call

\* Poll 1 is the poll of InitPolls; no poll has id 2 there (a forged id).
PollIds == {1, 2}
OptionIndexes == {0, 1}
SessionUsers == {None} \cup {Some(u) : u \in Users}

\* votes.select("*").eq("poll_id", pollId).eq("user_id", userId)
ExistingVotes(vs, pollId, userId) ==
    {r \in DOMAIN vs : r[1] = pollId /\ r[2] = userId}

\* votes.insert([{poll_id, user_id, option_index}])
InsertVote(vs, pollId, userId, optionIndex) ==
    LET row == <<pollId, userId, optionIndex>>
    IN  [r \in DOMAIN vs \cup {row} |->
            IF r = row THEN (IF row \in DOMAIN vs THEN vs[row] + 1 ELSE 1) ELSE vs[r]]

RECURSIVE CountRows(_, _)
\* the number of rows the table holds under the given keys
CountRows(vs, keys) ==
    IF keys = {} THEN 0
    ELSE LET r == CHOOSE x \in keys : TRUE IN vs[r] + CountRows(vs, keys \ {r})

\* the rows of one (pollId, userId) pair
RowsOf(vs, pollId, userId) == CountRows(vs, ExistingVotes(vs, pollId, userId))

ActDone(h, e) == [h EXCEPT !.pc = "done", !.result = Returned(e)]

\* submitVote that lets a caller without a user go on, its vote recorded
\* under a null user id (mutant of voteLoginGate).
voteLoginGate_Anonymous(h) ==
    [h EXCEPT !.pc = "check", !.user = IF @ = None THEN Some(Null) ELSE @]

\* submitVote, line 152: no user, no vote.
voteLoginGate(h) ==
    IF h.user = None THEN ActDone(h, MsgVoteLogin) ELSE [h EXCEPT !.pc = "check"]

\* submitVote(pollId, optionIndex) is called and getUser() answers.
BeginVote(s, user, pollId, optionIndex) ==
    /\ acts[s].pc = "idle"
    /\ CountRows(votes, DOMAIN votes) < MaxVotes
    /\ LET h == [IdleAct EXCEPT !.op = "submitVote", !.user = user, !.poll = pollId,
                                !.option = optionIndex]
       IN  acts' = [acts EXCEPT ![s] = voteLoginGate(h)]
    /\ UNCHANGED <<polls, votes, nextPollId, rateVars, pureVars, authVars>>

\* submitVote without the test of the rows found (mutant of VoteCheck).
VoteCheck_NoDuplicateTest(s, fails) ==
    /\ acts[s].op = "submitVote" /\ acts[s].pc = "check"
    /\ acts' = [acts EXCEPT ![s] =
          IF fails THEN ActDone(@, MsgDataError) ELSE [@ EXCEPT !.pc = "insert"]]
    /\ UNCHANGED <<polls, votes, nextPollId, rateVars, pureVars, authVars>>

\* The data service answers the select of the caller's votes on the poll.
VoteCheck(s, fails) ==
    /\ acts[s].op = "submitVote" /\ acts[s].pc = "check"
    /\ acts' = [acts EXCEPT ![s] =
          IF fails THEN ActDone(@, MsgDataError)
          ELSE IF ExistingVotes(votes, @.poll, @.user[1]) # {} THEN ActDone(@, MsgVoted)
          ELSE [@ EXCEPT !.pc = "insert"]]
    /\ UNCHANGED <<polls, votes, nextPollId, rateVars, pureVars, authVars>>

\* The data service answers the insert of the vote.
VoteInsert(s, fails) ==
    /\ acts[s].op = "submitVote" /\ acts[s].pc = "insert"
    /\ votes' = IF fails THEN votes
                ELSE InsertVote(votes, acts[s].poll, acts[s].user[1], acts[s].option)
    /\ acts' = [acts EXCEPT ![s] = ActDone(@, IF fails THEN MsgDataError ELSE Null)]
    /\ UNCHANGED <<polls, nextPollId, rateVars, pureVars, authVars>>

\* The caller has its answer; the slot is free for the next invocation.
CompleteAct(s) ==
    /\ acts[s].pc = "done"
    /\ acts' = [acts EXCEPT ![s] = IdleAct]
    /\ UNCHANGED <<polls, votes, nextPollId, rateVars, pureVars, authVars>>

InitVote == InitRate /\ InitPureIdle /\ InitAuth /\ InitData

NextVote ==
    \/ \E s \in ActSlots : \E u \in SessionUsers : \E p \in PollIds : \E o \in OptionIndexes :
          BeginVote(s, u, p, o)
    \/ \E s \in ActSlots : \E f \in BOOLEAN : VoteCheck(s, f)
    \/ \E s \in ActSlots : \E f \in BOOLEAN : VoteInsert(s, f)
    \/ \E s \in ActSlots : CompleteAct(s)

SpecVote == InitVote /\ [][NextVote]_vars

\* C2: the votes table holds at most one row per (pollId, userId) pair.
C2_OneVotePerUserAndPoll ==
    \A p \in PollIds : \A u \in Users : RowsOf(votes, p, u) <= 1

\* -------------------------------------------------------------- poll actions
MsgCreateLogin == "You must be logged in to create a poll."
MsgUpdateLogin == "You must be logged in to update a poll."
MsgDeleteLogin == "You must be logged in to delete a poll."
MsgPollRate == "Rate limit exceeded. Please try again later."
MsgPollFields == "Please provide a question and at least two options."
MsgPollNotFound == "Poll not found"
MsgDeleteOwn == "You can only delete your own polls"
MsgAuthError == "identity service error"    \* userError.message

\* What getUser() answers: an error, no user, or a user.
GetUserAnswers == {[error |-> TRUE, user |-> None]}
                  \cup {[error |-> FALSE, user |-> u] : u \in SessionUsers}

\* The form contents submitted: the question field (null when missing) and
\* every options field.
FormNames == {"good", "escaped", "missing"}
FormData(f) ==
    CASE f = "good" -> [question |-> Some(<<"q">>), options |-> << <<"x">>, <<"y">> >>]
      [] f = "escaped" -> [question |-> Some(<<"<">>),
                           options |-> << <<"&">>, <<>>, <<"y">> >>]
      [] f = "missing" -> [question |-> None, options |-> << <<"x">> >>]
      [] f = "oneoption" -> [question |-> Some(<<"q">>), options |-> << <<"x">>, <<>> >>]
      [] f = "emptyq" -> [question |-> Some(<<>>), options |-> << <<"x">>, <<"y">> >>]
      [] f = "quoted" -> [question |-> Some(<<"'", ">">>),
                          options |-> << <<>>, <<"\"">>, <<" ">> >>]

NonEmpty(str) == str # <<>>

\* The fields without the filter of the empty options (mutant of PollFields).
PollFields_KeepEmpty(form) ==
    [question |-> sanitizeInput(form.question),
     options |-> [i \in 1..Len(form.options) |-> sanitizeInput(Some(form.options[i]))]]

\* lines 87-91 and 248-252: the sanitized question and the sanitized
\* non-empty options.
PollFields(form) ==
    LET kept == SelectSeq(form.options, NonEmpty)
    IN  [question |-> sanitizeInput(form.question),
         options |-> [i \in 1..Len(kept) |-> sanitizeInput(Some(kept[i]))]]

\* createPoll, lines 73-95: from the answer of getUser() to the insert.
createPollGates(h, rl, answer, t) ==
    IF answer.error THEN [h |-> ActDone(h, MsgAuthError), rl |-> rl, call |-> None]
    ELSE IF answer.user = None THEN [h |-> ActDone(h, MsgCreateLogin), rl |-> rl, call |-> None]
    ELSE LET key == CreatePollKey(answer.user[1])
             r == checkRateLimit(rl, key, CreatePollMaxAttempts, CreatePollWindowMs, t)
             call == Some([key |-> key, ok |-> r.ok])
             f == PollFields(FormData(h.form))
         IN  IF ~r.ok THEN [h |-> ActDone(h, MsgPollRate), rl |-> r.rl, call |-> call]
             ELSE IF f.question = <<>> \/ Len(f.options) < 2
             THEN [h |-> ActDone(h, MsgPollFields), rl |-> r.rl, call |-> call]
             ELSE [h |-> [h EXCEPT !.pc = "insert"], rl |-> r.rl, call |-> call]

\* updatePoll, lines 234-256: from the answer of getUser() to the update.
updatePollGates(h, rl, answer, t) ==
    IF answer.error THEN [h |-> ActDone(h, MsgAuthError), rl |-> rl, call |-> None]
    ELSE IF answer.user = None THEN [h |-> ActDone(h, MsgUpdateLogin), rl |-> rl, call |-> None]
    ELSE LET key == UpdatePollKey(answer.user[1])
             r == checkRateLimit(rl, key, UpdatePollMaxAttempts, UpdatePollWindowMs, t)
             call == Some([key |-> key, ok |-> r.ok])
             f == PollFields(FormData(h.form))
         IN  IF ~r.ok THEN [h |-> ActDone(h, MsgPollRate), rl |-> r.rl, call |-> call]
             ELSE IF f.question = <<>> \/ Len(f.options) < 2
             THEN [h |-> ActDone(h, MsgPollFields), rl |-> r.rl, call |-> call]
             ELSE [h |-> [h EXCEPT !.pc = "update"], rl |-> r.rl, call |-> call]

\* The shared end of a step that ran those gates.
ApplyActGates(s, g) ==
    /\ acts' = [acts EXCEPT ![s] = g.h]
    /\ rateLimits' = g.rl
    /\ IF g.call = None
       THEN UNCHANGED <<admitted, windows>>
       ELSE /\ admitted' = AdmittedAfter(admitted, rateLimits,
                                         [rl |-> g.rl, ok |-> g.call[1].ok], g.call[1].key)
            /\ windows' = WindowsAfter(windows, rateLimits, g.rl, g.call[1].key)

\* polls.insert([{user_id, question, options}])
InsertPoll(ps, id, userId, f) ==
    [p \in DOMAIN ps \cup {id} |->
        IF p = id THEN [user_id |-> userId, question |-> f.question, options |-> f.options]
        ELSE ps[p]]

\* An update scoped by the poll id alone (mutant of UpdatePollRows).
UpdatePollRows_IdOnly(ps, id, userId, f) ==
    [p \in DOMAIN ps |->
        IF p = id
        THEN [ps[p] EXCEPT !.question = f.question, !.options = f.options]
        ELSE ps[p]]

\* polls.update({question, options}).eq("id", pollId).eq("user_id", user.id)
UpdatePollRows(ps, id, userId, f) ==
    [p \in DOMAIN ps |->
        IF p = id /\ ps[p].user_id = userId
        THEN [ps[p] EXCEPT !.question = f.question, !.options = f.options]
        ELSE ps[p]]

\* polls.delete().eq("id", id)
DeletePollRows(ps, id) == [p \in DOMAIN ps \ {id} |-> ps[p]]

\* deletePoll without the comparison of owner and caller (mutant of
\* deletePollCheck).
deletePollCheck_NoOwnerTest(h, ps, fails) ==
    IF fails \/ h.poll \notin DOMAIN ps THEN ActDone(h, MsgDataError)
    ELSE [h EXCEPT !.pc = "delete"]

\* deletePoll, lines 198-214: the answer of the select of the poll's owner.
\* .single() answers with an error when no row has the id.
deletePollCheck(h, ps, fails) ==
    IF fails \/ h.poll \notin DOMAIN ps THEN ActDone(h, MsgDataError)
    ELSE IF ps[h.poll].user_id # h.user[1] THEN ActDone(h, MsgDeleteOwn)
    ELSE [h EXCEPT !.pc = "delete"]

\* The guard that caps the calls one user makes of updatePoll.
CallsBelowCap(rl, key) == key \in DOMAIN rl => rl[key].count < MaxPollCalls

\* createPoll(formData) is called, getUser() answers, and the action runs on
\* to its insert.
BeginCreatePoll(s, answer, form) ==
    /\ acts[s].pc = "idle"
    /\ nextPollId <= MaxPolls
    /\ answer.user # None =>
          CountBelowCap(rateLimits, CreatePollKey(answer.user[1]), CreatePollMaxAttempts, now)
    /\ ApplyActGates(s, createPollGates(
            [IdleAct EXCEPT !.op = "createPoll", !.user = answer.user,
                            !.userError = answer.error, !.form = form],
            rateLimits, answer, now))
    /\ UNCHANGED <<polls, votes, nextPollId, now, advances, pureVars, authVars>>

\* The data service answers the insert of the poll.
CreatePollInsert(s, fails) ==
    /\ acts[s].op = "createPoll" /\ acts[s].pc = "insert"
    /\ IF fails
       THEN /\ acts' = [acts EXCEPT ![s] = ActDone(@, MsgDataError)]
            /\ UNCHANGED <<polls, nextPollId>>
       ELSE /\ polls' = InsertPoll(polls, nextPollId, acts[s].user[1],
                                   PollFields(FormData(acts[s].form)))
            /\ nextPollId' = nextPollId + 1
            /\ acts' = [acts EXCEPT ![s] = ActDone([@ EXCEPT !.poll = nextPollId], Null)]
    /\ UNCHANGED <<votes, rateVars, pureVars, authVars>>

\* updatePoll(pollId, formData) is called, getUser() answers, and the action
\* runs on to its update.
BeginUpdatePoll(s, answer, pollId, form) ==
    /\ acts[s].pc = "idle"
    /\ answer.user # None =>
          CountBelowCap(rateLimits, UpdatePollKey(answer.user[1]), UpdatePollMaxAttempts, now)
    /\ ApplyActGates(s, updatePollGates(
            [IdleAct EXCEPT !.op = "updatePoll", !.user = answer.user,
                            !.userError = answer.error, !.poll = pollId,
                            !.form = form],
            rateLimits, answer, now))
    /\ UNCHANGED <<polls, votes, nextPollId, now, advances, pureVars, authVars>>

\* The same, for a user who has made few updatePoll calls so far.
BeginUpdatePollCapped(s, answer, pollId, form) ==
    /\ answer.user # None => CallsBelowCap(rateLimits, UpdatePollKey(answer.user[1]))
    /\ BeginUpdatePoll(s, answer, pollId, form)

\* The data service answers the update of the poll.
UpdatePollUpdate(s, fails) ==
    /\ acts[s].op = "updatePoll" /\ acts[s].pc = "update"
    /\ polls' = IF fails THEN polls
                ELSE UpdatePollRows(polls, acts[s].poll, acts[s].user[1],
                                    PollFields(FormData(acts[s].form)))
    /\ acts' = [acts EXCEPT ![s] = ActDone(@, IF fails THEN MsgDataError ELSE Null)]
    /\ UNCHANGED <<votes, nextPollId, rateVars, pureVars, authVars>>

\* deletePoll(id) is called and getUser() answers.
BeginDeletePoll(s, answer, pollId) ==
    /\ acts[s].pc = "idle"
    /\ LET h == [IdleAct EXCEPT !.op = "deletePoll", !.user = answer.user,
                                !.userError = answer.error, !.poll = pollId]
       IN  acts' = [acts EXCEPT ![s] =
                IF answer.error THEN ActDone(h, MsgAuthError)
                ELSE IF answer.user = None THEN ActDone(h, MsgDeleteLogin)
                ELSE [h EXCEPT !.pc = "select"]]
    /\ UNCHANGED <<polls, votes, nextPollId, rateVars, pureVars, authVars>>

\* The data service answers the select of the poll's owner.
DeletePollSelect(s, fails) ==
    /\ acts[s].op = "deletePoll" /\ acts[s].pc = "select"
    /\ acts' = [acts EXCEPT ![s] = deletePollCheck(@, polls, fails)]
    /\ UNCHANGED <<polls, votes, nextPollId, rateVars, pureVars, authVars>>

\* The data service answers the delete of the poll.
DeletePollDelete(s, fails) ==
    /\ acts[s].op = "deletePoll" /\ acts[s].pc = "delete"
    /\ polls' = IF fails THEN polls ELSE DeletePollRows(polls, acts[s].poll)
    /\ acts' = [acts EXCEPT ![s] = ActDone(@, IF fails THEN MsgDataError ELSE Null)]
    /\ UNCHANGED <<votes, nextPollId, rateVars, pureVars, authVars>>

\* The database holds one poll, created by u1 in an earlier run of the
\* server; the rate limiter of this run is empty.
InitPolls ==
    /\ InitRate /\ InitPureIdle /\ InitAuth
    /\ polls = InsertPoll(<<>>, 1, "u1", PollFields(FormData("escaped")))
    /\ votes = <<>>
    /\ nextPollId = 2
    /\ acts = [s \in ActSlots |-> IdleAct]

UpdateForms == {"good", "missing"}

\* updatePoll and deletePoll invocations, two at a time.
NextPolls ==
    \/ \E s \in ActSlots : \E a \in GetUserAnswers : \E p \in PollIds : \E f \in UpdateForms :
          BeginUpdatePollCapped(s, a, p, f)
    \/ \E s \in ActSlots : \E f \in BOOLEAN : UpdatePollUpdate(s, f)
    \/ \E s \in ActSlots : \E a \in GetUserAnswers : \E p \in PollIds :
          BeginDeletePoll(s, a, p)
    \/ \E s \in ActSlots : \E f \in BOOLEAN : DeletePollSelect(s, f)
    \/ \E s \in ActSlots : \E f \in BOOLEAN : DeletePollDelete(s, f)
    \/ \E s \in ActSlots : CompleteAct(s)

SpecPolls == InitPolls /\ [][NextPolls]_vars

InitCreate == InitRate /\ InitPureIdle /\ InitAuth /\ InitData

\* createPoll invocations, one at a time.
NextCreate ==
    \/ \E a \in GetUserAnswers : \E f \in FormNames : BeginCreatePoll("p1", a, f)
    \/ \E f \in BOOLEAN : CreatePollInsert("p1", f)
    \/ CompleteAct("p1")

SpecCreate == InitCreate /\ [][NextCreate]_vars

\* C3: a poll leaves the table only in the delete step of a deletePoll whose
\* caller is the poll's owner; a deletePoll whose caller is not the owner of
\* the poll never reaches its delete step, and when the lookup of the owner
\* answers it returns "You can only delete your own polls" with the table
\* unchanged.
C3_OnlyOwnerDeletes ==
    [][/\ \A p \in DOMAIN polls :
            p \notin DOMAIN polls' =>
                \E s \in ActSlots :
                    /\ acts[s].op = "deletePoll" /\ acts[s].pc = "delete"
                    /\ acts[s].poll = p
                    /\ acts[s].user = Some(polls[p].user_id)
                    /\ acts'[s].pc = "done" /\ acts'[s].result = Returned(Null)
       /\ \A s \in ActSlots :
            (/\ acts[s].op = "deletePoll" /\ acts[s].pc = "select" /\ acts'[s].pc # "select"
             /\ acts[s].poll \in DOMAIN polls
             /\ Some(polls[acts[s].poll].user_id) # acts[s].user)
            => /\ acts'[s].pc = "done"
               /\ acts'[s].result \in {Returned(MsgDeleteOwn), Returned(MsgDataError)}
               /\ polls' = polls
       /\ \A s \in ActSlots :
            (acts'[s] # acts[s] /\ acts'[s].op = "deletePoll" /\ acts'[s].pc = "done"
               /\ acts'[s].result = Returned(MsgDeleteOwn))
            => polls' = polls /\ acts[s].pc = "select"
       /\ \A s \in ActSlots :
            (acts'[s].op = "deletePoll" /\ acts'[s].pc = "delete" /\ acts'[s].poll \in DOMAIN polls')
            => Some(polls'[acts'[s].poll].user_id) = acts'[s].user
      ]_vars

\* u2 has been told it can only delete its own polls, u1 has deleted its
\* poll, and the poll is gone.
C3_Witness ==
    /\ 1 \notin DOMAIN polls
    /\ \E s, t \in ActSlots :
        /\ acts[s].op = "deletePoll" /\ acts[s].pc = "done" /\ acts[s].poll = 1
        /\ acts[s].user = Some("u2") /\ acts[s].result = Returned(MsgDeleteOwn)
        /\ acts[t].op = "deletePoll" /\ acts[t].pc = "done" /\ acts[t].poll = 1
        /\ acts[t].user = Some("u1") /\ acts[t].result = Returned(Null)

\* C4: no step of an updatePoll changes the question, the options or the
\* owner of a poll that its caller does not own, whatever the poll id and the
\* form.
C4_UpdateLeavesOthersPolls ==
    [][\A s \in ActSlots :
          (acts[s].op = "updatePoll" /\ acts'[s] # acts[s]) \/
          (acts[s].pc = "idle" /\ acts'[s].op = "updatePoll")
          => \A p \in DOMAIN polls :
                Some(polls[p].user_id) # acts'[s].user
                    => p \in DOMAIN polls' /\ polls'[p] = polls[p]
      ]_vars

\* u2's updatePoll of u1's poll, with a valid form, has had its update
\* answered without error, and the poll is as it was.
C4_Witness ==
    \E s \in ActSlots :
        /\ acts[s].op = "updatePoll" /\ acts[s].pc = "done"
        /\ acts[s].user = Some("u2") /\ acts[s].poll = 1 /\ acts[s].form = "good"
        /\ acts[s].result = Returned(Null)
        /\ 1 \in DOMAIN polls
        /\ polls[1] = [user_id |-> "u1", question |-> <<"&", "l", "t", ";">>,
                       options |-> << <<"&", "a", "m", "p", ";">>, <<"y">> >>]

\* ------------------------------------------------------------- session gate
startsWith(str, prefix) ==
    Len(prefix) <= Len(str) /\ SubSeq(str, 1, Len(prefix)) = prefix

endsWith(str, suffix) ==
    Len(suffix) <= Len(str) /\ SubSeq(str, Len(str) - Len(suffix) + 1, Len(str)) = suffix

\* A regular expression of literal characters, with "." for any character,
\* matched at the start of str.
RegexPrefix(str, pattern) ==
    /\ Len(pattern) <= Len(str)
    /\ \A i \in 1..Len(pattern) : pattern[i] = "." \/ pattern[i] = str[i]

\* The alternatives of the matcher's negative lookahead.
MatcherPrefixes == {<<"_", "n", "e", "x", "t", "/", "s", "t", "a", "t", "i", "c">>, <<"_", "n", "e", "x", "t", "/", "i", "m", "a", "g", "e">>, <<"f", "a", "v", "i", "c", "o", "n", ".", "i", "c", "o">>,
                    <<"l", "o", "g", "i", "n">>, <<"r", "e", "g", "i", "s", "t", "e", "r">>, <<"a", "u", "t", "h">>, <<"a", "p", "i", "/", "p", "u", "b", "l", "i", "c">>}
ImageExtensions == {<<"s", "v", "g">>, <<"p", "n", "g">>, <<"j", "p", "g">>, <<"j", "p", "e", "g">>, <<"g", "i", "f">>, <<"w", "e", "b", "p">>}

\* config.matcher: the middleware runs on a path when what follows its
\* leading "/" starts with none of the alternatives and does not end in
\* "." and an image extension.
matcherMatches(pathname) ==
    /\ pathname # <<>> /\ Head(pathname) = "/"
    /\ LET rest == Tail(pathname)
       IN  /\ \A pre \in MatcherPrefixes : ~RegexPrefix(rest, pre)
           /\ \A ext \in ImageExtensions : ~endsWith(rest, <<".">> \o ext)

RedirectTo == <<"r", "e", "d", "i", "r", "e", "c", "t", "T", "o">>
LoginPath == <<"/", "l", "o", "g", "i", "n">>
RegisterPath == <<"/", "r", "e", "g", "i", "s", "t", "e", "r">>
AuthPath == <<"/", "a", "u", "t", "h">>
RootPath == <<"/">>

\* URLSearchParams.get(name): the first value under the name.
searchParamsGet(search, name) ==
    LET idx == {i \in DOMAIN search : search[i][1] = name}
    IN  IF idx = {} THEN None
        ELSE Some(search[CHOOSE i \in idx : \A j \in idx : i <= j][2])

\* A set() that adds the pair after the pairs already there (mutant of
\* searchParamsSet).
searchParamsSet_Append(search, name, value) == Append(search, <<name, value>>)

\* URLSearchParams.set(name, value): the first pair under the name takes the
\* value and the other pairs under it are removed; without one the pair is
\* appended.
searchParamsSet(search, name, value) ==
    LET idx == {i \in DOMAIN search : search[i][1] = name}
    IN  IF idx = {} THEN Append(search, <<name, value>>)
        ELSE LET first == CHOOSE i \in idx : \A j \in idx : i <= j
             IN  SubSeq(search, 1, first - 1) \o << <<name, value>> >>
                 \o SelectSeq(SubSeq(search, first + 1, Len(search)),
                              LAMBDA e : e[1] # name)

\* The serializer of a query: letters, digits and * - . _ stay, a space
\* becomes +, any other character becomes % and its two hexadecimal digits.
urlEncodeChar(c) == CASE c = "/" -> <<"%", "2", "F">>
                      [] c = "%" -> <<"%", "2", "5">>
                      [] c = " " -> <<"+">>
                      [] OTHER -> <<c>>

RECURSIVE urlEncode(_)
urlEncode(str) == IF str = <<>> THEN <<>> ELSE urlEncodeChar(Head(str)) \o urlEncode(Tail(str))

RECURSIVE serializeSearch(_)
serializeSearch(search) ==
    IF search = <<>> THEN <<>>
    ELSE urlEncode(search[1][1]) \o <<"=">> \o urlEncode(search[1][2])
         \o (IF Len(search) = 1 THEN <<>> ELSE <<"&">> \o serializeSearch(Tail(search)))

\* The path and query of a URL as the Location header carries them.
href(url) ==
    url.pathname \o (IF url.search = <<>> THEN <<>> ELSE <<"?">> \o serializeSearch(url.search))

\* NextResponse.next({request}): no redirect, no cookie set.
PassThrough(kind) == [kind |-> kind, location |-> NoUrl, cookies |-> <<>>]

\* lines 35-40: the options a cookie is set with on the response.
cookieOptions(options, production) ==
    [options EXCEPT !.secure = production, !.sameSite = "lax", !.httpOnly = TRUE]

\* cookies.set(name, value): the map with the name bound to the value.
setCookie(jar, name, value) ==
    [n \in DOMAIN jar \cup {name} |-> IF n = name THEN value ELSE jar[n]]

RECURSIVE setOnRequest(_, _)
\* line 29: each cookie of the batch set on request.cookies.
setOnRequest(jar, batch) ==
    IF batch = <<>> THEN jar
    ELSE setOnRequest(setCookie(jar, Head(batch).name, Head(batch).value), Tail(batch))

RECURSIVE setOnResponse(_, _, _)
\* lines 34-41: each cookie of the batch set on the response, with the
\* options of the code.
setOnResponse(jar, batch, production) ==
    IF batch = <<>> THEN jar
    ELSE setOnResponse(
            setCookie(jar, Head(batch).name,
                      [value |-> Head(batch).value,
                       options |-> cookieOptions(Head(batch).options, production)]),
            Tail(batch), production)

\* setAll(cookiesToSet), lines 28-42, on st = [forwarded, response]: the
\* cookies are set on the request, supabaseResponse is created anew from the
\* request, and the cookies are set on it.
setAll(st, cookiesToSet, production) ==
    [forwarded |-> setOnRequest(st.forwarded, cookiesToSet),
     response |-> [PassThrough("next") EXCEPT
                     !.cookies = setOnResponse(<<>>, cookiesToSet, production)]]

\* updateSession that sets the cookies of supabaseResponse on its redirect
\* (mutant of updateSessionResponse).
updateSessionResponse_CookiesOnRedirect(pathname, search, session, supabaseResponse) ==
    IF /\ session = None
       /\ ~startsWith(pathname, LoginPath)
       /\ ~startsWith(pathname, RegisterPath)
       /\ ~startsWith(pathname, AuthPath)
       /\ pathname # RootPath
    THEN [kind |-> "redirect",
          location |-> [pathname |-> LoginPath,
                        search |-> searchParamsSet(search, RedirectTo, pathname)],
          cookies |-> supabaseResponse.cookies]
    ELSE supabaseResponse

\* updateSession, lines 52-71: the response once getSession() has answered.
\* NextResponse.redirect(url) is a response of its own, without the cookies
\* of supabaseResponse.
updateSessionResponse(pathname, search, session, supabaseResponse) ==
    IF /\ session = None
       /\ ~startsWith(pathname, LoginPath)
       /\ ~startsWith(pathname, RegisterPath)
       /\ ~startsWith(pathname, AuthPath)
       /\ pathname # RootPath
    THEN [kind |-> "redirect",
          location |-> [pathname |-> LoginPath,
                        search |-> searchParamsSet(search, RedirectTo, pathname)],
          cookies |-> <<>>]
    ELSE supabaseResponse

\* Sample requests.
GatePaths == {RootPath, LoginPath, <<"/", "l", "o", "g", "i", "n", "x">>, RegisterPath, <<"/", "a", "u", "t", "h", "/", "c", "b">>, <<"/", "a", "u", "t", "h", "o", "r", "s">>,
              <<"/", "p", "o", "l", "l", "s">>, <<"/", "p", "o", "l", "l", "s", "/", "1", "2", "3">>, <<"/", "a", "p", "i", "/", "c", "s", "r", "f">>, <<"/", "a", "p", "i", "/", "p", "u", "b", "l", "i", "c", "/", "x">>, <<"/", "_", "n", "e", "x", "t", "/", "s", "t", "a", "t", "i", "c", "/", "a", ".", "j", "s">>,
              <<"/", "f", "a", "v", "i", "c", "o", "n", ".", "i", "c", "o">>, <<"/", "p", "o", "l", "l", "s", "/", "a", ".", "p", "n", "g">>, <<"/", "a", "%", "2", "0", "b">>}
GateSearches == {<<>>, << <<<<"x">>, <<"1">>>> >>,
                 << <<RedirectTo, <<"/", "e", "v", "i", "l">>>>, <<<<"x">>, <<"1">>>>, <<RedirectTo, <<"/", "e", "2">>>> >>}

\* The session cookie of the identity service, and what it asks to set:
\* the cookie of a refreshed session, and the removal of the cookie of a
\* session it could not refresh.
SessionCookie == "sb-auth-token"
GateCookieJars == {<<>>, [n \in {SessionCookie} |-> "old"]}
RefreshedBatch ==
    << [name |-> SessionCookie, value |-> "new",
        options |-> [path |-> "/", maxAge |-> 34560000, httpOnly |-> FALSE,
                     sameSite |-> "lax", secure |-> FALSE]] >>
RemovedBatch ==
    << [name |-> SessionCookie, value |-> "",
        options |-> [path |-> "/", maxAge |-> 0, httpOnly |-> FALSE,
                     sameSite |-> "strict", secure |-> TRUE]] >>

\* What getSession() may pass to setAll before it answers: nothing without
\* a session cookie; with one, the refreshed session when it will answer a
\* session, and the removal of the cookie when it will answer none.
SetAllBatchesOf(cookies, session) ==
    IF cookies = <<>> THEN {}
    ELSE IF session = None THEN {RemovedBatch}
    ELSE {RefreshedBatch}

\* updateSession without the test of the environment variables (mutant of
\* GateRequest).
GateRequest_NoEnvCheck(pathname, search, env, session, production, cookies) ==
    /\ gateReq.pc = "idle"
    /\ cookies = <<>> => session = None
    /\ LET r == [IdleGate EXCEPT !.pathname = pathname, !.search = search,
                                 !.env = env, !.session = session,
                                 !.production = production, !.cookies = cookies,
                                 !.forwarded = cookies]
       IN  gateReq' =
             IF ~matcherMatches(pathname)
             THEN [r EXCEPT !.pc = "done", !.response = PassThrough("skip")]
             ELSE [r EXCEPT !.pc = "session", !.called = TRUE]
    /\ UNCHANGED <<pureIn, pureOut, registerPage, rateVars, authVars, dataVars>>

\* A request arrives with its cookies and the session they stand for. The
\* framework runs the middleware only on a path the matcher matches;
\* updateSession passes the request through when an environment variable is
\* missing, and otherwise calls getSession() and awaits its answer.
GateRequest(pathname, search, env, session, production, cookies) ==
    /\ gateReq.pc = "idle"
    /\ cookies = <<>> => session = None
    /\ LET r == [IdleGate EXCEPT !.pathname = pathname, !.search = search,
                                 !.env = env, !.session = session,
                                 !.production = production, !.cookies = cookies,
                                 !.forwarded = cookies]
       IN  gateReq' =
             IF ~matcherMatches(pathname)
             THEN [r EXCEPT !.pc = "done", !.response = PassThrough("skip")]
             ELSE IF ~env
             THEN [r EXCEPT !.pc = "done", !.response = r.supabaseResponse]
             ELSE [r EXCEPT !.pc = "session", !.called = TRUE]
    /\ UNCHANGED <<pureIn, pureOut, registerPage, rateVars, authVars, dataVars>>

\* While updateSession awaits getSession(), the identity service calls
\* setAll: the request's cookies and supabaseResponse are rewritten.
GateSetAll ==
    /\ gateReq.pc = "session"
    /\ gateReq.asked = <<>>
    /\ \E batch \in SetAllBatchesOf(gateReq.cookies, gateReq.session) :
          LET st == setAll([forwarded |-> gateReq.forwarded,
                            response |-> gateReq.supabaseResponse],
                           batch, gateReq.production)
          IN  gateReq' = [gateReq EXCEPT !.asked = batch,
                                         !.forwarded = st.forwarded,
                                         !.supabaseResponse = st.response]
    /\ UNCHANGED <<pureIn, pureOut, registerPage, rateVars, authVars, dataVars>>

\* getSession() answers and updateSession returns its response.
GateSession ==
    /\ gateReq.pc = "session"
    /\ gateReq' = [gateReq EXCEPT
                      !.pc = "done",
                      !.response = updateSessionResponse(gateReq.pathname, gateReq.search,
                                                         gateReq.session,
                                                         gateReq.supabaseResponse)]
    /\ UNCHANGED <<pureIn, pureOut, registerPage, rateVars, authVars, dataVars>>

\* The response has gone out; the next request may arrive.
GateComplete ==
    /\ gateReq.pc = "done"
    /\ gateReq' = IdleGate
    /\ UNCHANGED <<pureIn, pureOut, registerPage, rateVars, authVars, dataVars>>

InitGate == InitRate /\ InitPureIdle /\ InitAuth /\ InitData

NextGate ==
    \/ \E p \in GatePaths : \E q \in GateSearches : \E e \in BOOLEAN : \E u \in SessionUsers :
       \E prod \in BOOLEAN : \E c \in GateCookieJars :
          GateRequest(p, q, e, u, prod, c)
    \/ GateSetAll
    \/ GateSession
    \/ GateComplete

SpecGate == InitGate /\ [][NextGate]_vars

\* The pages and files the gate is meant to leave open: the page at a path
\* is the path itself and what lies under it.
IsPage(pathname, page) == pathname = page \/ startsWith(pathname, page \o <<"/">>)

ListedPath(pathname) ==
    \/ IsPage(pathname, <<"/", "l", "o", "g", "i", "n">>) \/ IsPage(pathname, <<"/", "r", "e", "g", "i", "s", "t", "e", "r">>)
    \/ IsPage(pathname, <<"/", "a", "u", "t", "h">>) \/ IsPage(pathname, <<"/", "a", "p", "i", "/", "p", "u", "b", "l", "i", "c">>)
    \/ IsPage(pathname, <<"/", "_", "n", "e", "x", "t", "/", "s", "t", "a", "t", "i", "c">>) \/ IsPage(pathname, <<"/", "_", "n", "e", "x", "t", "/", "i", "m", "a", "g", "e">>)
    \/ pathname = <<"/", "f", "a", "v", "i", "c", "o", "n", ".", "i", "c", "o">>
    \/ \E ext \in {<<"s", "v", "g">>, <<"p", "n", "g">>, <<"j", "p", "g">>, <<"j", "p", "e", "g">>, <<"g", "i", "f">>, <<"w", "e", "b", "p">>} : endsWith(pathname, <<".">> \o ext)

GatePasses == gateReq.response.kind \in {"skip", "next"}

\* C12: with the configuration present, a request with a session is passed
\* through; a request without a session is passed through exactly when its
\* path is "/" or a login, register or auth page, a static asset or a public
\* API path, and is answered with a redirect otherwise.
C12_GateAdmitsOnlyListedPaths ==
    (gateReq.pc = "done" /\ gateReq.env) =>
        /\ gateReq.session # None => GatePasses
        /\ gateReq.session = None =>
              (GatePasses <=> (gateReq.pathname = <<"/">> \/ ListedPath(gateReq.pathname)))
        /\ ~GatePasses => gateReq.response.kind = "redirect"

\* The paths the gate's patterns leave closed: not "/", and not beginning or
\* ending as one of the patterns does.
ProtectedPath(pathname) ==
    /\ pathname # <<"/">>
    /\ \A pre \in {<<"/", "l", "o", "g", "i", "n">>, <<"/", "r", "e", "g", "i", "s", "t", "e", "r">>, <<"/", "a", "u", "t", "h">>, <<"/", "a", "p", "i", "/", "p", "u", "b", "l", "i", "c">>, <<"/", "_", "n", "e", "x", "t", "/", "s", "t", "a", "t", "i", "c">>, <<"/", "_", "n", "e", "x", "t", "/", "i", "m", "a", "g", "e">>} :
          ~startsWith(pathname, pre)
    /\ ~RegexPrefix(pathname, <<"/", "f", "a", "v", "i", "c", "o", "n", ".", "i", "c", "o">>)
    /\ \A ext \in {<<"s", "v", "g">>, <<"p", "n", "g">>, <<"j", "p", "g">>, <<"j", "p", "e", "g">>, <<"g", "i", "f">>, <<"w", "e", "b", "p">>} : ~endsWith(pathname, <<".">> \o ext)

\* What a reader of the Location header gets back from an encoded value.
RECURSIVE PercentDecode(_)
PercentDecode(str) ==
    IF str = <<>> THEN <<>>
    ELSE IF Head(str) = "%" /\ Len(str) >= 3
    THEN (CASE SubSeq(str, 2, 3) = <<"2", "F">> -> <<"/">>
            [] SubSeq(str, 2, 3) = <<"2", "5">> -> <<"%">>
            [] OTHER -> <<"?">>) \o PercentDecode(SubSeq(str, 4, Len(str)))
    ELSE (IF Head(str) = "+" THEN <<" ">> ELSE <<Head(str)>>) \o PercentDecode(Tail(str))

\* C13: a protected path P requested without a session is answered with a
\* redirect to /login whose one redirectTo parameter is P, whatever query
\* the request carried; for a request without a query the Location is
\* /login?redirectTo= followed by P percent-encoded, so /polls/123 gives
\* /login?redirectTo=%2Fpolls%2F123.
C13_RedirectCarriesPath ==
    (/\ gateReq.pc = "done" /\ gateReq.env /\ gateReq.session = None
     /\ ProtectedPath(gateReq.pathname))
    => LET loc == gateReq.response.location
           pre == <<"/", "l", "o", "g", "i", "n", "?", "r", "e", "d", "i", "r", "e", "c", "t", "T", "o", "=">>
       IN  /\ gateReq.response.kind = "redirect"
           /\ loc.pathname = <<"/", "l", "o", "g", "i", "n">>
           /\ searchParamsGet(loc.search, <<"r", "e", "d", "i", "r", "e", "c", "t", "T", "o">>) = Some(gateReq.pathname)
           /\ Cardinality({i \in DOMAIN loc.search : loc.search[i][1] = <<"r", "e", "d", "i", "r", "e", "c", "t", "T", "o">>}) = 1
           /\ gateReq.search = <<>> =>
                 /\ startsWith(href(loc), pre)
                 /\ PercentDecode(SubSeq(href(loc), Len(pre) + 1, Len(href(loc))))
                       = gateReq.pathname
           /\ (gateReq.search = <<>> /\ gateReq.pathname = <<"/", "p", "o", "l", "l", "s", "/", "1", "2", "3">>) =>
                 href(loc) = <<"/", "l", "o", "g", "i", "n", "?", "r", "e", "d", "i", "r", "e", "c", "t", "T", "o", "=", "%", "2", "F", "p", "o", "l", "l", "s", "%", "2", "F", "1", "2", "3">>

\* /polls/123, requested without a session and with a query that already
\* names redirectTo twice, has been answered with the redirect.
C13_Witness ==
    /\ gateReq.pc = "done" /\ gateReq.env /\ gateReq.session = None
    /\ gateReq.pathname = <<"/", "p", "o", "l", "l", "s", "/", "1", "2", "3">>
    /\ Len(gateReq.search) = 3
    /\ gateReq.response.kind = "redirect"
    /\ gateReq.response.location.search = << <<<<"r", "e", "d", "i", "r", "e", "c", "t", "T", "o">>, <<"/", "p", "o", "l", "l", "s", "/", "1", "2", "3">>>>, <<<<"x">>, <<"1">>>> >>

\* ------------------------------------------- the four actions, one at a time
InitActions == InitPolls

\* The callers of this specification: u1, and callers without a user.
ActionsAnswers == {a \in GetUserAnswers : a.user # Some("u2")}
ActionsUsers == {None, Some("u1")}

\* createPoll, updatePoll, deletePoll and submitVote invocations on one
\* database, one at a time.
NextActions ==
    \/ \E a \in ActionsAnswers : BeginCreatePoll("p1", a, "good")
    \/ \E f \in BOOLEAN : CreatePollInsert("p1", f)
    \/ \E a \in ActionsAnswers : \E p \in PollIds : BeginUpdatePollCapped("p1", a, p, "good")
    \/ \E f \in BOOLEAN : UpdatePollUpdate("p1", f)
    \/ \E a \in ActionsAnswers : \E p \in PollIds : BeginDeletePoll("p1", a, p)
    \/ \E f \in BOOLEAN : DeletePollSelect("p1", f)
    \/ \E f \in BOOLEAN : DeletePollDelete("p1", f)
    \/ \E u \in ActionsUsers : \E p \in PollIds : \E o \in OptionIndexes : BeginVote("p1", u, p, o)
    \/ \E f \in BOOLEAN : VoteCheck("p1", f)
    \/ \E f \in BOOLEAN : VoteInsert("p1", f)
    \/ CompleteAct("p1")

SpecActions == InitActions /\ [][NextActions]_vars

LoginMessage(op) == CASE op = "createPoll" -> "You must be logged in to create a poll."
                      [] op = "updatePoll" -> "You must be logged in to update a poll."
                      [] op = "deletePoll" -> "You must be logged in to delete a poll."
                      [] op = "submitVote" -> "You must be logged in to vote."

\* The step in which slot s is called and getUser() gives it no user.
CalledWithoutUser(s) ==
    acts[s].pc = "idle" /\ acts'[s].pc # "idle" /\ acts'[s].user = None

\* That step ends the invocation with a non-null error and without a write.
TurnedAway(s) ==
    /\ acts'[s].pc = "done"
    /\ acts'[s].result.kind = "return"
    /\ acts'[s].result.error # Null
    /\ polls' = polls /\ votes' = votes

\* Polls and votes change only in a step of an invocation that has a user,
\* and every vote row carries the id of a user.
WritesHaveUser ==
    /\ (polls' # polls \/ votes' # votes)
         => \E s \in ActSlots : acts'[s] # acts[s] /\ acts[s].user \in {Some(u) : u \in Users}
    /\ \A r \in DOMAIN votes' : r[2] \in Users

\* C14, as stated: a createPoll, updatePoll, deletePoll or submitVote whose
\* getUser() gave no user ends at once with its "must be logged in" error
\* and leaves polls and votes as they were; polls and votes change only in a
\* step of an invocation that has a user, and every vote row carries the id
\* of a user.
C14_NoUserLoginMessage ==
    [][/\ \A s \in ActSlots :
            CalledWithoutUser(s)
            => /\ TurnedAway(s)
               /\ acts'[s].result.error = LoginMessage(acts'[s].op)
       /\ WritesHaveUser
      ]_vars

\* C14, amended: such an invocation ends at once with a non-null error and
\* leaves polls and votes as they were; the error is its "must be logged in"
\* message, except that a createPoll, updatePoll or deletePoll whose
\* getUser() reported an error together with no user returns that error's
\* text, and only then; polls and votes change only in a step of an
\* invocation that has a user, and every vote row carries the id of a user.
C14_NoUserNoWrite ==
    [][/\ \A s \in ActSlots :
            CalledWithoutUser(s)
            => /\ TurnedAway(s)
               /\ acts'[s].result.error =
                     IF acts'[s].userError THEN MsgAuthError
                     ELSE LoginMessage(acts'[s].op)
               /\ acts'[s].userError => acts'[s].op # "submitVote"
       /\ WritesHaveUser
      ]_vars

\* While the votes table holds the vote of a user, a createPoll whose
\* getUser() reported an error and no user has been turned away with that
\* error's text.
C14_Witness ==
    \E s \in ActSlots :
        /\ acts[s].op = "createPoll" /\ acts[s].pc = "done"
        /\ acts[s].user = None /\ acts[s].userError
        /\ acts[s].result = Returned(MsgAuthError)
        /\ votes # <<>>

\* C15: a submitVote that returned {error: null} has stored its row, rows
\* are never removed, and a submitVote whose check is answered while the
\* table holds a row of its user on its poll ends with "You have already
\* voted on this poll" (or the data service's error) and inserts nothing,
\* whatever its option index; so every submitVote that begins after a
\* successful one of the same user on the same poll is turned away.
C15_LaterVoteRejected ==
    [][/\ \A s \in ActSlots :
            (/\ acts'[s] # acts[s] /\ acts'[s].op = "submitVote"
             /\ acts'[s].pc = "done" /\ acts'[s].result = Returned(Null))
            => RowsOf(votes', acts'[s].poll, acts'[s].user[1]) >= 1
       /\ \A p \in PollIds : \A u \in Users : RowsOf(votes', p, u) >= RowsOf(votes, p, u)
       /\ \A s \in ActSlots :
            (/\ acts[s].op = "submitVote" /\ acts[s].pc = "check" /\ acts'[s].pc # "check"
             /\ RowsOf(votes, acts[s].poll, acts[s].user[1]) >= 1)
            => /\ acts'[s].pc = "done"
               /\ acts'[s].result \in {Returned("You have already voted on this poll"),
                                       Returned(MsgDataError)}
               /\ votes' = votes
      ]_vars

\* A submitVote has been told the user has already voted; its option index
\* is not the one of the row the table holds for the user on the poll.
C15_Witness ==
    \E s \in ActSlots :
        /\ acts[s].op = "submitVote" /\ acts[s].pc = "done"
        /\ acts[s].result = Returned(MsgVoted)
        /\ \E r \in DOMAIN votes :
              r[1] = acts[s].poll /\ <<r[2]>> = acts[s].user /\ r[3] # acts[s].option
        /\ RowsOf(votes, acts[s].poll, acts[s].user[1]) = 1

\* C16: an updatePoll of a user on a poll owned by someone else returns a
\* non-null error.
C16_UpdateByNonOwnerReturnsError ==
    \A s \in ActSlots :
        (/\ acts[s].op = "updatePoll" /\ acts[s].pc = "done" /\ acts[s].user # None
         /\ acts[s].poll \in DOMAIN polls
         /\ Some(polls[acts[s].poll].user_id) # acts[s].user)
        => acts[s].result.error # Null

WindowMsOf(key) == CASE key[1] = "login_" -> 60000
                     [] key[1] = "register_global" -> 3600000
                     [] key[1] = "create_poll_" -> 60000
                     [] key[1] = "update_poll_" -> 60000

\* C17: a checkRateLimit call made when the clock equals the key's stored
\* window end starts a new window: afterwards the entry counts that one call,
\* its window ends windowMs later, and the call was admitted.
C17_ResetAtWindowEnd ==
    [][\A k \in DOMAIN rateLimits :
          (rateLimits'[k] # rateLimits[k] /\ now = rateLimits[k].resetTime)
          => /\ rateLimits'[k].count = 1
             /\ rateLimits'[k].resetTime = now + WindowMsOf(k)
             /\ admitted'[k] = 1
      ]_vars

\* C18: in every window of a key the calls that returned true are the first
\* maxAttempts calls of the window (the calls after them returned false), and
\* a call made after the clock has passed the window end is the first call of
\* a new window and returns true.
C18_FirstNThenNoneUntilWindowPasses ==
    [][/\ \A k \in DOMAIN rateLimits' :
            admitted'[k] = (IF rateLimits'[k].count <= MaxAttemptsOf(k)
                            THEN rateLimits'[k].count ELSE MaxAttemptsOf(k))
       /\ \A k \in DOMAIN rateLimits :
            (rateLimits'[k] # rateLimits[k] /\ now > rateLimits[k].resetTime)
            => /\ rateLimits'[k].count = 1
               /\ rateLimits'[k].resetTime = now + WindowMsOf(k)
               /\ admitted'[k] = 1
      ]_vars

\* The registration key, in its second window, has had three calls admitted
\* and a fourth rejected.
C18_Witness ==
    /\ RegisterKey \in DOMAIN rateLimits
    /\ windows[RegisterKey] = 2
    /\ rateLimits[RegisterKey].count = RegisterMaxAttempts + 1
    /\ admitted[RegisterKey] = RegisterMaxAttempts

\* ------------------------------------------------- the rate-limited actions
InitPolicy == InitPolls

\* An invocation begins when no other is in progress.
PolicyIdle == auth["h1"].pc = "idle" /\ acts["p1"].pc = "idle"

\* login submissions without a csrf_token field, and createPoll and
\* updatePoll calls in the session of u1, one at a time, inside one window.
NextPolicy ==
    \/ PolicyIdle /\ BeginLogin("h1", None)
    \/ \E err \in IdentityErrors : IdentityAnswers("h1", err)
    \/ ReturnSuccess("h1")
    \/ Complete("h1")
    \/ PolicyIdle /\ \E a \in ActionsAnswers : BeginCreatePoll("p1", a, "good")
    \/ \E f \in BOOLEAN : CreatePollInsert("p1", f)
    \/ PolicyIdle /\ \E a \in ActionsAnswers : BeginUpdatePoll("p1", a, 1, "good")
    \/ \E f \in BOOLEAN : UpdatePollUpdate("p1", f)
    \/ CompleteAct("p1")

SpecPolicy == InitPolicy /\ [][NextPolicy]_vars

PolicyBudget(key) == CASE key[1] = "login_" -> 5
                       [] key[1] = "create_poll_" -> 5
                       [] key[1] = "update_poll_" -> 10
                       [] OTHER -> 0

AdmittedOf(key) == IF key \in DOMAIN admitted THEN admitted[key] ELSE 0
CountOf(key) == IF key \in DOMAIN rateLimits THEN rateLimits[key].count ELSE 0

\* The calls admitted for an email under any spelling of its letters' case.
AdmittedForEmail ==
    AdmittedOf(<<"login_", EmailLower>>) + AdmittedOf(<<"login_", EmailUpper>>)

\* C19: inside one window the limiter admits at most 5 logins for an email,
\* whatever the case of its letters, at most 5 createPoll calls and at most 10
\* updatePoll calls of a user; a login reaches the identity service only as
\* one of those admitted; a login beyond the budget returns its throttling
\* message without calling the identity service, and a createPoll or
\* updatePoll beyond the budget returns its throttling message without an
\* insert or update.
C19_PolicyBudgets ==
    [][/\ \A k \in DOMAIN admitted' : k[1] # "register_global" => admitted'[k] <= PolicyBudget(k)
       /\ AdmittedForEmail' <= 5
       /\ (auth["h1"].pc # "identity" /\ auth'["h1"].pc = "identity")
            => LET k == <<"login_", toLowerCase(auth'["h1"].email[1])>>
               IN  k \in DOMAIN admitted' /\ admitted'[k] = AdmittedOf(k) + 1
       /\ (/\ auth["h1"].pc = "idle" /\ auth'["h1"].op = "login" /\ auth'["h1"].email # None
           /\ CountOf(<<"login_", toLowerCase(auth'["h1"].email[1])>>) >= 5)
            => /\ auth'["h1"].pc = "done"
               /\ auth'["h1"].result = Returned("Too many login attempts. Please try again later.")
       /\ (/\ acts["p1"].pc = "idle" /\ acts'["p1"].op \in {"createPoll", "updatePoll"}
           /\ acts'["p1"].user # None
           /\ CountOf(<<IF acts'["p1"].op = "createPoll" THEN "create_poll_" ELSE "update_poll_",
                        acts'["p1"].user>>)
                 >= (IF acts'["p1"].op = "createPoll" THEN 5 ELSE 10))
            => /\ acts'["p1"].pc = "done"
               /\ acts'["p1"].result = Returned("Rate limit exceeded. Please try again later.")
               /\ polls' = polls
      ]_vars

\* The sixth login for an email, spelled in lower case after attempts in
\* upper case, has been throttled, and so has u1's eleventh updatePoll.
C19_Witness ==
    /\ auth["h1"].op = "login" /\ auth["h1"].pc = "done"
    /\ auth["h1"].email = Some(EmailLower)
    /\ auth["h1"].result = Returned(MsgLoginRate)
    /\ admitted[LoginKey(EmailUpper)] = 5
    /\ UpdatePollKey("u1") \in DOMAIN rateLimits
    /\ rateLimits[UpdatePollKey("u1")].count = 11
    /\ admitted[UpdatePollKey("u1")] = 10

\* C19 as first stated: a call beyond the budget has called no external
\* service, the identity service's getUser() included.
C19_ThrottledCallsNoService ==
    /\ (auth["h1"].pc = "done" /\ auth["h1"].result \in {Returned(MsgLoginRate)})
          => auth["h1"].trace = <<"rate:fail">>
    /\ (acts["p1"].pc = "done" /\ acts["p1"].result = Returned(MsgPollRate))
          => acts["p1"].user = None

\* The register submissions admitted in the window, under every key.
RegisterAdmitted ==
    CountRows(admitted, {k \in DOMAIN admitted : k[1] \in {"register_global", "register_"}})

\* C20: in one window the limiter admits at most 3 register submissions in
\* all, whatever their callers and emails; and once 3 have been counted, a
\* register submission that comes to the limiter returns the "temporarily
\* unavailable" message and signUp is not called.
C20_GlobalRegisterBudget ==
    [][/\ RegisterAdmitted' <= 3
       /\ \A s \in Slots :
            (/\ auth[s].pc \in {"idle", "csrf"} /\ auth'[s].op = "register"
             /\ auth'[s].pc # "csrf"
             /\ auth'[s].trace[Len(auth'[s].trace)] # "csrf:fail"
             /\ CountOf(<<"register_global", <<>>>>) >= 3)
            => /\ auth'[s].pc = "done"
               /\ auth'[s].result =
                     Returned("Registration is temporarily unavailable. Please try again later.")
       /\ \A s \in Slots :
            (auth[s].pc # "identity" /\ auth'[s].pc = "identity" /\ auth'[s].op = "register")
            => CountOf(<<"register_global", <<>>>>) < 3
      ]_vars

\* After three counted submissions a register with a well-formed email and
\* name has been turned away as the fourth.
C20_Witness ==
    \E s \in Slots :
        /\ auth[s].op = "register" /\ auth[s].pc = "done"
        /\ auth[s].email = Some(EmailLower) /\ auth[s].name = Some(<<"<">>)
        /\ auth[s].result = Returned(MsgRegisterRate)
        /\ rateLimits[RegisterKey].count = 4
        /\ admitted[RegisterKey] = 3

\* ------------------------------------ the field validation of the poll forms
\* Every form createPoll and updatePoll are called with here.
FieldForms == FormNames \cup {"oneoption", "emptyq", "quoted"}

\* createPoll and updatePoll invocations of u1, u2 and callers without a
\* user, one at a time, with every form.
NextFields ==
    \/ \E a \in GetUserAnswers : \E f \in FieldForms : BeginCreatePoll("p1", a, f)
    \/ \E f \in BOOLEAN : CreatePollInsert("p1", f)
    \/ \E a \in GetUserAnswers : \E p \in PollIds : \E f \in FieldForms :
          BeginUpdatePollCapped("p1", a, p, f)
    \/ \E f \in BOOLEAN : UpdatePollUpdate("p1", f)
    \/ CompleteAct("p1")

InitFields == InitPolls

SpecFields == InitFields /\ [][NextFields]_vars

\* The submitted form has no question, an empty one, or fewer than two
\* non-empty options.
FieldsRejected(form) ==
    \/ form.question = None
    \/ form.question[1] = <<>>
    \/ Cardinality({i \in 1..Len(form.options) : form.options[i] # <<>>}) < 2

\* The HTML-escaped question and non-empty options of the accepted forms,
\* written out.
EscapedFields(f) ==
    CASE f = "good" -> [question |-> <<"q">>, options |-> << <<"x">>, <<"y">> >>]
      [] f = "escaped" -> [question |-> <<"&", "l", "t", ";">>,
                           options |-> << <<"&", "a", "m", "p", ";">>, <<"y">> >>]
      [] f = "quoted" -> [question |-> <<"&", "#", "0", "3", "9", ";", "&", "g", "t", ";">>,
                          options |-> << <<"&", "q", "u", "o", "t", ";">>, <<" ">> >>]

\* The messages of the gates that precede the field validation.
EarlierGateMessages ==
    {Returned(MsgAuthError), Returned(MsgCreateLogin), Returned(MsgUpdateLogin),
     Returned(MsgPollRate)}

\* C21: a createPoll or updatePoll that gets as far as its field validation
\* (an authenticated caller the rate limiter admits) returns "Please provide a
\* question and at least two options." exactly when the sanitized question is
\* empty or fewer than two non-empty options were submitted; no call with
\* such a form reaches the insert or the update, and the table is unchanged;
\* every row an insert or update writes holds the HTML-escaped question and
\* the HTML-escaped non-empty options of the form.
C21_FieldsRejectedOrEscaped ==
    [][\A s \in ActSlots :
        /\ (acts[s].pc = "idle" /\ acts'[s].op \in {"createPoll", "updatePoll"}) =>
              LET rejected == FieldsRejected(FormData(acts'[s].form))
              IN  /\ acts'[s].result = Returned(MsgPollFields) => rejected /\ acts'[s].pc = "done"
                  /\ rejected => acts'[s].pc = "done" /\ polls' = polls
                  /\ acts'[s].result \notin EarlierGateMessages =>
                        (rejected <=> acts'[s].result = Returned(MsgPollFields))
                  /\ polls' = polls
        /\ (acts[s].pc \in {"insert", "update"} /\ acts'[s] # acts[s]) =>
              /\ ~FieldsRejected(FormData(acts[s].form))
              /\ \A p \in DOMAIN polls' :
                    (p \notin DOMAIN polls \/ polls'[p] # polls[p]) =>
                        /\ polls'[p].question = EscapedFields(acts[s].form).question
                        /\ polls'[p].options = EscapedFields(acts[s].form).options
      ]_vars

\* u1's createPoll with a question and one non-empty option among two has
\* returned the message and the table holds the poll it held; before it,
\* u1's updatePoll of that poll with the quoted form was stored escaped.
C21_Witness ==
    /\ acts["p1"].op = "createPoll" /\ acts["p1"].pc = "done"
    /\ acts["p1"].form = "oneoption" /\ acts["p1"].user = Some("u1")
    /\ acts["p1"].result = Returned(MsgPollFields)
    /\ DOMAIN polls = {1}
    /\ polls[1] = [user_id |-> "u1",
                   question |-> <<"&", "#", "0", "3", "9", ";", "&", "g", "t", ";">>,
                   options |-> << <<"&", "q", "u", "o", "t", ";">>, <<" ">> >>]

\* ------------------------------------------------ sanitizeInput on its own
MaxInputLen == 3

SanitizeChars == {"&", "<", ">", "\"", "'", "b"}

\* undefined, and every string of at most MaxInputLen characters
SanitizeInputs == {None} \cup {Some(t) : t \in StringsUpTo(SanitizeChars, MaxInputLen)}

InitSanitize ==
    /\ InitRate
    /\ InitAuth
    /\ InitData
    /\ pureIn \in SanitizeInputs
    /\ pureOut = <<>>
    /\ gateReq = IdleGate
    /\ registerPage = IdlePage

\* sanitizeInput(x) and sanitizeInput(sanitizeInput(x))
ApplySanitize ==
    /\ pureOut = <<>>
    /\ pureOut' = <<sanitizeInput(pureIn), sanitizeInput(Some(sanitizeInput(pureIn)))>>
    /\ UNCHANGED <<pureIn, gateReq, registerPage, rateVars, authVars, dataVars>>

SpecSanitize == InitSanitize /\ [][ApplySanitize]_vars

\* The HTML entity of a character, or the character.
EntityOf(c) ==
    CASE c = "&" -> <<"&", "a", "m", "p", ";">>
      [] c = "<" -> <<"&", "l", "t", ";">>
      [] c = ">" -> <<"&", "g", "t", ";">>
      [] c = "\"" -> <<"&", "q", "u", "o", "t", ";">>
      [] c = "'" -> <<"&", "#", "0", "3", "9", ";">>
      [] OTHER -> <<c>>

RECURSIVE EscapeEach(_)
\* Every character of the string replaced by its entity.
EscapeEach(str) ==
    IF str = <<>> THEN <<>> ELSE EntityOf(Head(str)) \o EscapeEach(Tail(str))

HtmlSpecial == {"&", "<", ">", "\"", "'"}

HasSpecial(str) == \E i \in 1..Len(str) : str[i] \in HtmlSpecial

\* C24: sanitizeInput replaces each of & < > " ' by its HTML entity and
\* leaves every other character (sanitizeInput("<b>") = "&lt;b&gt;"); on a
\* string with none of the five characters it is the identity, and so is a
\* second application; on a string containing & the second application
\* differs from the first, the ampersand being escaped twice.
C24_SanitizeEscapesEach ==
    pureOut # <<>> =>
        LET x == IF pureIn = None THEN <<>> ELSE pureIn[1]
            once == pureOut[1]
            twice == pureOut[2]
        IN  /\ once = EscapeEach(x)
            /\ twice = EscapeEach(once)
            /\ x = <<"<", "b", ">">> => once = <<"&", "l", "t", ";", "b", "&", "g", "t", ";">>
            /\ ~HasSpecial(x) => once = x /\ twice = once
            /\ (\E i \in 1..Len(x) : x[i] = "&") => twice # once
            /\ x = <<"&">> => /\ once = <<"&", "a", "m", "p", ";">>
                              /\ twice = <<"&", "a", "m", "p", ";", "a", "m", "p", ";">>

\* "<b>" was sanitized to "&lt;b&gt;", and once more to "&amp;lt;b&amp;gt;".
C24_Witness ==
    /\ pureIn = Some(<<"<", "b", ">">>)
    /\ pureOut = << <<"&", "l", "t", ";", "b", "&", "g", "t", ";">>,
                    <<"&", "a", "m", "p", ";", "l", "t", ";", "b",
                      "&", "a", "m", "p", ";", "g", "t", ";">> >>

\* ------------------------------------------------ validateEmail on its own
MaxEmailLen == 5

EmailChars == {"a", "@", ".", " ", "\t", "&"}

EmailStrings == {None} \cup {Some(t) : t \in StringsUpTo(EmailChars, MaxEmailLen)}

InitEmail ==
    /\ InitRate
    /\ InitAuth
    /\ InitData
    /\ pureIn \in EmailStrings
    /\ pureOut = <<>>
    /\ gateReq = IdleGate
    /\ registerPage = IdlePage

ApplyValidateEmail ==
    /\ pureOut = <<>>
    /\ pureOut' = Some(validateEmail(pureIn))
    /\ UNCHANGED <<pureIn, gateReq, registerPage, rateVars, authVars, dataVars>>

SpecEmail == InitEmail /\ [][ApplyValidateEmail]_vars

\* local@domain.tld: no whitespace, exactly one @ with a non-empty part on
\* either side, and in the part after it a dot that is neither its first nor
\* its last character.
LocalAtDomainTld(str) ==
    /\ \A i \in 1..Len(str) : str[i] \notin WhiteSpace
    /\ Cardinality({i \in 1..Len(str) : str[i] = "@"}) = 1
    /\ LET at == CHOOSE i \in 1..Len(str) : str[i] = "@"
       IN  /\ at > 1
           /\ \E j \in (at + 2)..(Len(str) - 1) : str[j] = "."

\* C25: validateEmail returns '' exactly for the inputs that are missing,
\* empty or not of the shape local@domain.tld; for an input of that shape it
\* returns the input with each of & < > " ' replaced by its entity, which is
\* the input itself when it has none of them.
C25_ValidateEmailShape ==
    pureOut # <<>> =>
        LET out == pureOut[1]
            shaped == pureIn # None /\ LocalAtDomainTld(pureIn[1])
        IN  /\ out = <<>> <=> ~shaped
            /\ shaped => /\ out = EscapeEach(pureIn[1])
                         /\ ~HasSpecial(pureIn[1]) => out = pureIn[1]

\* "&@a.a" was returned as "&amp;@a.a".
C25_Witness ==
    /\ pureIn = Some(<<"&", "@", "a", ".", "a">>)
    /\ pureOut = Some(<<"&", "a", "m", "p", ";", "@", "a", ".", "a">>)

\* --------------------------------------------- several keys, many rejections
MaxRejected == 2
MaxProbes == 2

\* <<key, maxAttempts, windowMs, calls made per window>>: login for one email
\* and createPoll for one user, called until MaxRejected calls were rejected,
\* and login for another email and createPoll for another user, called
\* MaxProbes times.
KeySites ==
    {<<LoginKey(EmailLower), LoginMaxAttempts, LoginWindowMs, LoginMaxAttempts + MaxRejected>>,
     <<CreatePollKey("u1"), CreatePollMaxAttempts, CreatePollWindowMs,
       CreatePollMaxAttempts + MaxRejected>>,
     <<LoginKey(EmailOther), LoginMaxAttempts, LoginWindowMs, MaxProbes>>,
     <<CreatePollKey("u2"), CreatePollMaxAttempts, CreatePollWindowMs, MaxProbes>>}

KeyClockSteps == {LoginWindowMs}

\* The guard that caps the calls of a key in one window.
CallsInWindowBelow(rl, key, cap, t) ==
    key \in DOMAIN rl /\ ~(rl[key].resetTime < t) => rl[key].count < cap

\* One call of checkRateLimit from one of these call sites.
CallKeySite(key, maxAttempts, windowMs, cap) ==
    /\ CallsInWindowBelow(rateLimits, key, cap, now)
    /\ LET r == checkRateLimit(rateLimits, key, maxAttempts, windowMs, now)
       IN  /\ rateLimits' = r.rl
           /\ admitted' = AdmittedAfter(admitted, rateLimits, r, key)
           /\ windows' = WindowsAfter(windows, rateLimits, r.rl, key)
    /\ UNCHANGED <<now, advances, pureVars, authVars, dataVars>>

NextKeys ==
    \/ \E d \in KeyClockSteps : Advance(d)
    \/ \E c \in KeySites : CallKeySite(c[1], c[2], c[3], c[4])

InitKeys == InitRate /\ InitPureIdle /\ InitAuth /\ InitData

SpecKeys == InitKeys /\ [][NextKeys]_vars

\* The step is a checkRateLimit call for the key: the calls are the steps
\* that change an entry of the map.
CalledFor(k) ==
    k \in DOMAIN rateLimits' /\ (k \notin DOMAIN rateLimits \/ rateLimits'[k] # rateLimits[k])

\* The key has an entry whose window the clock has not passed.
InWindow(k) == k \in DOMAIN rateLimits /\ now <= rateLimits[k].resetTime

\* C28: a checkRateLimit call made within the key's window leaves the window
\* end as the call that opened the window set it and adds exactly one to
\* count, whether it is admitted or rejected (count goes beyond maxAttempts);
\* a call outside a window opens one that ends windowMs later, and is
\* admitted; so every rejected call is made at most windowMs after the first
\* call of its window.
C28_WindowEndFixed ==
    [][\A k \in DOMAIN rateLimits' :
          CalledFor(k) =>
            /\ IF InWindow(k)
               THEN /\ rateLimits'[k].resetTime = rateLimits[k].resetTime
                    /\ rateLimits'[k].count = rateLimits[k].count + 1
                    /\ windows'[k] = windows[k]
               ELSE /\ rateLimits'[k].resetTime = now + WindowMsOf(k)
                    /\ rateLimits'[k].count = 1
                    /\ admitted'[k] = 1
            /\ rateLimits'[k].count > MaxAttemptsOf(k) =>
                  /\ InWindow(k)
                  /\ admitted'[k] = admitted[k]
                  /\ now - (rateLimits'[k].resetTime - WindowMsOf(k)) <= WindowMsOf(k)
      ]_vars

\* A login key whose first window was opened at time 0 and still ends at
\* windowMs after two rejected calls, the clock standing at the window end.
C28_Witness ==
    LET k == LoginKey(EmailLower)
    IN  /\ k \in DOMAIN rateLimits
        /\ windows[k] = 1
        /\ rateLimits[k].count = LoginMaxAttempts + 2
        /\ admitted[k] = LoginMaxAttempts
        /\ rateLimits[k].resetTime = LoginWindowMs
        /\ now = LoginWindowMs

\* C29: a checkRateLimit call for a key changes the entry of that key alone:
\* every other key keeps its entry, count and window end, and the number of
\* its calls admitted; the call's own outcome is that of the same call on a
\* map holding the key's entry alone, so it is rejected only when the key's
\* own count had reached maxAttempts.
C29_OnlyOwnKey ==
    [][\A k \in DOMAIN rateLimits' :
          CalledFor(k) =>
            /\ \A j \in (DOMAIN rateLimits \cup DOMAIN rateLimits') \ {k} :
                  /\ j \in DOMAIN rateLimits /\ j \in DOMAIN rateLimits'
                  /\ rateLimits'[j] = rateLimits[j]
                  /\ admitted'[j] = admitted[j]
                  /\ windows'[j] = windows[j]
            /\ LET own == [x \in DOMAIN rateLimits \cap {k} |-> rateLimits[x]]
                   alone == checkRateLimit(own, k, MaxAttemptsOf(k), WindowMsOf(k), now)
               IN  /\ rateLimits'[k] = alone.rl[k]
                   /\ alone.ok <=> rateLimits'[k].count <= MaxAttemptsOf(k)
            /\ rateLimits'[k].count > MaxAttemptsOf(k) =>
                  InWindow(k) /\ rateLimits[k].count >= MaxAttemptsOf(k)
      ]_vars

\* The login budget of one email and the createPoll budget of u1 are
\* exhausted, with calls rejected; a login for another email and a
\* createPoll of u2 made in the same window were admitted.
C29_Witness ==
    /\ {LoginKey(EmailLower), LoginKey(EmailOther), CreatePollKey("u1"), CreatePollKey("u2")}
          \subseteq DOMAIN rateLimits
    /\ rateLimits[LoginKey(EmailLower)].count > LoginMaxAttempts
    /\ rateLimits[CreatePollKey("u1")].count > CreatePollMaxAttempts
    /\ rateLimits[LoginKey(EmailOther)].count = 1 /\ admitted[LoginKey(EmailOther)] = 1
    /\ rateLimits[CreatePollKey("u2")].count = 1 /\ admitted[CreatePollKey("u2")] = 1
    /\ rateLimits[LoginKey(EmailOther)].resetTime = rateLimits[LoginKey(EmailLower)].resetTime
    /\ rateLimits[CreatePollKey("u2")].resetTime = rateLimits[CreatePollKey("u1")].resetTime

\* ------------------------------------------- the session gate and its cookies
PollsPath == <<"/", "p", "o", "l", "l", "s">>

\* C23: when an environment variable of the identity service is missing,
\* the gate passes every request through as it came, whatever its path and
\* cookies: getSession() is not called, no cookie is set on the request or
\* on the response, and the response is not a redirect.
C23_MissingEnvPassesThrough ==
    (gateReq.pc = "done" /\ ~gateReq.env) =>
        /\ gateReq.response.kind \in {"skip", "next"}
        /\ gateReq.response.location = NoUrl
        /\ gateReq.response.cookies = <<>>
        /\ ~gateReq.called
        /\ gateReq.asked = <<>>
        /\ gateReq.forwarded = gateReq.cookies

\* /polls, requested without a session but with a session cookie while an
\* environment variable was missing, has been passed through by updateSession.
C23_Witness ==
    /\ gateReq.pc = "done" /\ ~gateReq.env
    /\ gateReq.pathname = PollsPath
    /\ gateReq.session = None /\ gateReq.cookies # <<>>
    /\ gateReq.response.kind = "next"

\* C27: every response updateSession returns after getSession(), the
\* redirect to /login included, carries each cookie the identity service
\* passed to setAll during the request, with its value and with httpOnly,
\* sameSite=lax and secure exactly in production.
C27_ResponsesCarryCookies ==
    (gateReq.pc = "done" /\ gateReq.called) =>
        \A i \in DOMAIN gateReq.asked :
            LET c == gateReq.asked[i]
                set == gateReq.response.cookies
            IN  /\ c.name \in DOMAIN set
                /\ set[c.name].value = c.value
                /\ set[c.name].options.httpOnly
                /\ set[c.name].options.sameSite = "lax"
                /\ set[c.name].options.secure = gateReq.production

\* ------------------------------------------------------- the register page
ApiCsrfPath == <<"/", "a", "p", "i", "/", "c", "s", "r", "f">>

\* generateCsrfToken() of csrf.ts: the n-th random token generated.
generateCsrfToken(n) == randomToken(n)

\* setCsrfCookie(token) of csrf.ts: the cookie afterwards.
setCsrfCookie(cookie, token) == Some(token)

\* The values setCsrfCookie is called with: the strings a form may carry.
CookieValues == {f[1] : f \in CsrfFields \ {None}}

\* setCsrfCookie(token) is called: the cookie holds the caller's value and
\* no token is generated. No function of the sources calls it; the step
\* belongs to the specification of the exported functions below and to no
\* flow of the pages and actions.
SetCsrfCookie(token) ==
    /\ csrfCookie' = setCsrfCookie(csrfCookie, token)
    /\ UNCHANGED <<issuedCount, auth, rateVars, pureVars, dataVars>>

InitCsrfCookie == InitRate /\ InitPureIdle /\ InitAuth /\ InitData

\* login and register with every writer of the cookie the sources export.
NextCsrfCookie ==
    \/ NextAuth
    \/ \E t \in CookieValues : SetCsrfCookie(t)

SpecCsrfCookie == InitCsrfCookie /\ [][NextCsrfCookie]_vars

\* A layout that also stores the token it renders (mutant of RootLayout).
RootLayout_SetsCookie(cookie, n) ==
    [meta |-> generateCsrfToken(n), cookie |-> Some(generateCsrfToken(n))]

\* RootLayout: the token rendered into the csrf-token meta tag and the
\* client's csrf_token cookie, which it leaves alone.
RootLayout(cookie, n) == [meta |-> generateCsrfToken(n), cookie |-> cookie]

\* The value of the csrf_token field of a form the page submits: none while
\* the page's csrfToken is ''.
CsrfField(token) == IF token = <<>> THEN None ELSE Some(token)

\* The client requests /register, for the first time or once more from a
\* page whose fetch has ended, and the server renders the layout.
OpenRegisterPage ==
    /\ registerPage.pc \in {"closed", "mounted"}
    /\ registerPage.fetch \in {"none", "failed", "done"}
    /\ auth["h1"].pc = "idle"
    /\ issuedCount < MaxIssued
    /\ LET r == RootLayout(csrfCookie, issuedCount)
       IN  /\ registerPage' = [IdlePage EXCEPT !.pc = "rendered", !.meta = r.meta]
           /\ csrfCookie' = r.cookie
    /\ issuedCount' = issuedCount + 1
    /\ UNCHANGED <<auth, pureIn, pureOut, gateReq, rateVars, dataVars>>

\* useEffect, lines 17-33: the meta tag's token becomes csrfToken and the
\* fetch of /api/csrf is sent.
RegisterPageEffect ==
    /\ registerPage.pc = "rendered"
    /\ registerPage' = [registerPage EXCEPT
                          !.pc = "mounted",
                          !.csrfToken = IF registerPage.meta # <<>> THEN registerPage.meta ELSE @,
                          !.fetch = "pending"]
    /\ UNCHANGED <<pureIn, pureOut, gateReq, rateVars, authVars, dataVars>>

\* The fetch of /api/csrf reaches the server and the middleware.
FetchAtGate(env, session, production, cookies) ==
    /\ registerPage.fetch = "pending"
    /\ GateRequest(ApiCsrfPath, <<>>, env, session, production, cookies)

\* The middleware has answered the fetch. Passed through, the route handler
\* GET generates a token, sets it as the cookie and returns it as JSON.
\* Redirected, the fetch follows to the login page, whose HTML res.json()
\* rejects, and the catch logs the error.
FetchRouted ==
    /\ registerPage.fetch = "pending"
    /\ gateReq.pc = "done"
    /\ IF gateReq.response.kind = "redirect"
       THEN /\ registerPage' = [registerPage EXCEPT !.fetch = "failed",
                                                     !.session = gateReq.session]
            /\ UNCHANGED <<csrfCookie, issuedCount>>
       ELSE /\ issuedCount < MaxIssued
            /\ csrfCookie' = generateAndSetCsrfToken(csrfCookie, issuedCount)
            /\ issuedCount' = issuedCount + 1
            /\ registerPage' = [registerPage EXCEPT !.fetch = "answered",
                                                     !.session = gateReq.session,
                                                     !.body = Some(randomToken(issuedCount))]
    /\ gateReq' = IdleGate
    /\ UNCHANGED <<auth, pureIn, pureOut, rateVars, dataVars>>

\* The fetched JSON reaches the page: data.token becomes csrfToken.
FetchResolves ==
    /\ registerPage.fetch = "answered"
    /\ registerPage' = [registerPage EXCEPT
                          !.fetch = "done",
                          !.csrfToken = IF registerPage.body # None /\ registerPage.body[1] # <<>>
                                        THEN registerPage.body[1] ELSE @]
    /\ UNCHANGED <<pureIn, pureOut, gateReq, rateVars, authVars, dataVars>>

\* handleSubmit, lines 83-88: the form is submitted with the page's csrfToken.
SubmitRegister ==
    /\ registerPage.pc = "mounted"
    /\ BeginRegister("h1", CsrfField(registerPage.csrfToken))

\* A login form under the same layout is submitted with the token of the
\* meta tag.
SubmitLoginWithMeta ==
    /\ registerPage.pc = "mounted"
    /\ BeginLogin("h1", CsrfField(registerPage.meta))

\* handleSubmit resumes with the result, lines 90-95: an error is shown and
\* the page stays; without one the browser leaves for /polls.
HandleSubmitResumes ==
    /\ auth["h1"].pc = "done"
    /\ auth' = [auth EXCEPT !["h1"] = IdleAuth]
    /\ registerPage' = IF auth["h1"].result.error # Null THEN registerPage ELSE IdlePage
    /\ UNCHANGED <<csrfCookie, issuedCount, pureIn, pureOut, gateReq, rateVars, dataVars>>

InitRegisterPage == InitRate /\ InitPureIdle /\ InitAuth /\ InitData

NextRegisterPage ==
    \/ OpenRegisterPage
    \/ RegisterPageEffect
    \/ \E e \in BOOLEAN : \E u \in SessionUsers : \E prod \in BOOLEAN : \E c \in GateCookieJars :
          FetchAtGate(e, u, prod, c)
    \/ registerPage.fetch = "pending" /\ GateSetAll
    \/ registerPage.fetch = "pending" /\ GateSession
    \/ FetchRouted
    \/ FetchResolves
    \/ SubmitRegister
    \/ SubmitLoginWithMeta
    \/ RegisterAfterCsrf("h1")
    \/ LoginAfterCsrf("h1")
    \/ \E err \in IdentityErrors : IdentityAnswers("h1", err)
    \/ ReturnSuccess("h1")
    \/ HandleSubmitResumes

SpecRegisterPage == InitRegisterPage /\ [][NextRegisterPage]_vars

\* C22: the token of the csrf-token meta tag is never the stored token, and
\* a login or register submission that carries it (as one made before the
\* page's fetch of /api/csrf has resolved does) fails the token comparison,
\* goes no further than the CSRF gate and returns the CSRF message.
C22_MetaTokenRejected ==
    registerPage.meta # <<>> =>
        /\ csrfCookie # Some(registerPage.meta)
        /\ \A s \in Slots :
              (auth[s].pc # "idle" /\ auth[s].csrf = Some(registerPage.meta)) =>
                  /\ auth[s].valid = "false"
                  /\ auth[s].pc \in {"csrf", "done"}
                  /\ auth[s].pc = "done" => auth[s].result = Returned(MsgCsrf)

\* A register submission made while the fetch was still pending carried the
\* meta tag's token and was rejected by the CSRF gate.
C22_Witness ==
    /\ registerPage.pc = "mounted" /\ registerPage.fetch = "pending"
    /\ auth["h1"].op = "register" /\ auth["h1"].pc = "done"
    /\ auth["h1"].csrf = Some(registerPage.meta)
    /\ auth["h1"].result = Returned(MsgCsrf)

\* C26: the fetch of /api/csrf by a client without a session is not
\* redirected by the gate: the page receives the token that was stored as
\* the csrf_token cookie, and a register submission carrying the fetched
\* token passes the CSRF gate.
C26_AnonymousCsrfFetch ==
    /\ (gateReq.pc = "done" /\ gateReq.pathname = ApiCsrfPath /\ gateReq.session = None)
          => gateReq.response.kind # "redirect"
    /\ registerPage.session = None => registerPage.fetch # "failed"
    /\ (registerPage.fetch = "answered" /\ registerPage.session = None)
          => registerPage.body = csrfCookie
    /\ (/\ registerPage.fetch = "done" /\ registerPage.session = None
        /\ auth["h1"].op = "register" /\ auth["h1"].pc # "idle"
        /\ auth["h1"].csrf = registerPage.body)
          => auth["h1"].valid = "true"

====
